---- MODULE Spec2Model ----
(***************************************************************************)
(* Model of the quote ingestion / reconciliation engine of                 *)
(* securitiesProject: the securities and security_quotes tables, the       *)
(* in-memory Security value, the Moscow Exchange client and the            *)
(* securitiesSQL operations that reconcile fetched quotes with the store.  *)
(*                                                                         *)
(* Time is counted in ticks; a calendar day is TicksPerDay ticks long and  *)
(* every timestamp of the model is a whole number of seconds, so the       *)
(* layout "2006-01-02 15:04:05" keeps a timestamp as it is, while the      *)
(* layout "2006-01-02" keeps only its day (DateOf).                        *)
(***************************************************************************)
EXTENDS Integers, Sequences, FiniteSets, TLC

(***************************************************************************)
(* Bounds and input domains                                                *)
(***************************************************************************)
\* number of operations issued by the callers of the store specifications
MaxCalls == 2
\* largest number of candles in one provider response
MaxFetch == 2
\* largest number of securities handed to one fan-out
MaxItems == 3

Procs == {1, 2}
Ids == {"A", "B"}
Days == {0, 1}
Ticks == {0, 1}
TicksPerDay == Cardinality(Ticks)
Times == {d * TicksPerDay + k : d \in Days, k \in Ticks}
Prices == {1, 2}

(***************************************************************************)
(* package securities: types and constants                                 *)
(***************************************************************************)
UnknownType == "unknown"
Share == "share"
ETF == "etf"
Bond == "bond"
Currency == "currency"

UnknownCurrency == "unknown"
RUB == "RUB"
USD == "USD"
EUR == "EUR"
CNY == "CNY"

IntervalDay == 24
IntervalHour == 60
Intervals == {IntervalDay, IntervalHour}

\* the zero time.Time (year 1), before every timestamp of the model
ZeroTime == 0 - 1

\* the zero value of SecurityQuotes
ZeroQuotes ==
  [Interval |-> 0, Begin |-> ZeroTime, End |-> ZeroTime,
   Open |-> 0, Close |-> 0, High |-> 0, Low |-> 0]

\* time.Format("2006-01-02"): the calendar day of a timestamp
DateOf(t) == t \div TicksPerDay

\* time.Truncate(24 * time.Hour)
TruncDay(t) == DateOf(t) * TicksPerDay

GetSecurity(id, name, sType, currency) ==
  [id |-> id, name |-> name, sType |-> sType, currency |-> currency,
   quotes |-> <<>>]

GetQuickSecurity(id, sType) == GetSecurity(id, "", sType, UnknownCurrency)

\* Security.SetQuotes: append one quote, existing quotes are kept
SetQuotes(s, q) == [s EXCEPT !.quotes = Append(@, q)]

\* Security.SetQuotesList: append a list, existing quotes are kept
SetQuotesList(s, qs) == [s EXCEPT !.quotes = @ \o qs]

\* Security.ClearAndSetQuotesList
ClearAndSetQuotesList(s, qs) == SetQuotesList([s EXCEPT !.quotes = <<>>], qs)

\* Security.QuotesOfInterval
QuotesOfInterval(s, interval) ==
  SelectSeq(s.quotes, LAMBDA q : q.Interval = interval)

\* a variant of the loop of QuotesForDate that keeps the quote it meets
\* last in the series, whatever its end
QuotesForDateLastInOrder(qs, i, interval, date, quotes) ==
  LET M == {k \in i..Len(qs) : qs[k].Interval = interval /\ qs[k].End <= date}
  IN IF M = {} THEN quotes
     ELSE qs[CHOOSE k \in M : \A j \in M : j <= k]

RECURSIVE QuotesForDateFrom(_, _, _, _, _)
QuotesForDateFrom(qs, i, interval, date, quotes) ==
  IF i > Len(qs) THEN quotes
  ELSE IF qs[i].Interval # interval \/ qs[i].End > date \/ quotes.End > qs[i].End
       THEN QuotesForDateFrom(qs, i + 1, interval, date, quotes)
       ELSE QuotesForDateFrom(qs, i + 1, interval, date, qs[i])

\* Security.QuotesForDate
QuotesForDate(s, interval, date) ==
  QuotesForDateFrom(s.quotes, 1, interval, date, ZeroQuotes)

\* a timestamp after every timestamp of the model (year 3000)
FarFuture == Cardinality(Times) + TicksPerDay

\* Security.LastQuotes
LastQuotes(s, interval) == QuotesForDate(s, interval, FarFuture)

(***************************************************************************)
(* Sequences helpers                                                       *)
(***************************************************************************)
Range(s) == {s[i] : i \in 1..Len(s)}

\* all sequences that list the elements of the finite set S once each
Perms(S) ==
  {f \in [1..Cardinality(S) -> S] : \A x \in S : \E i \in 1..Cardinality(S) : f[i] = x}

\* all reorderings of the sequence s
Reorderings(s) ==
  {[i \in 1..Len(s) |-> s[p[i]]] : p \in Perms(1..Len(s))}

\* a variant of the sort that leaves the quotes in the order they are in
KeepOrder(s) == {s}

\* sort.Slice with less(i, j) = q[j].Begin.After(q[i].Begin): sort.Slice is
\* not stable, so quotes with equal Begin may come out in any order
SortByBegin(s) ==
  {r \in Reorderings(s) : \A i \in 1..(Len(r) - 1) : r[i].Begin <= r[i + 1].Begin}

IsSortedByBegin(s) == \A i \in 1..(Len(s) - 1) : s[i].Begin <= s[i + 1].Begin

NoDuplicateBegin(s) ==
  \A i, j \in 1..Len(s) :
    (i # j /\ s[i].Interval = s[j].Interval) => s[i].Begin # s[j].Begin

(***************************************************************************)
(* package moex: the provider's candles and their decoding                 *)
(***************************************************************************)
\* getEngineAndMarket: the routing triple of a security type, "" on error
getEngineAndMarket(sType) ==
  CASE sType = Share -> <<"stock", "shares", "">>
    [] sType = ETF -> <<"stock", "shares", "TQTF">>
    [] sType = Bond -> <<"stock", "bonds", "">>
    [] sType = Currency -> <<"currency", "index", "">>
    [] OTHER -> <<>>

\* begins of the candles the provider may hold for a request: the request
\* carries calendar dates only (from=, till= in layout "2006-01-02"); a day
\* candle begins at midnight, a shorter one during the trading hours
CandleBegins(interval, dateFrom, dateTill) ==
  {t \in Times :
     /\ DateOf(dateFrom) <= DateOf(t)
     /\ DateOf(t) <= DateOf(dateTill)
     /\ (interval = IntervalDay <=> t = TruncDay(t))}

\* a day candle ends with the last tick of its day, a shorter one in its tick
CandleEnd(interval, b) ==
  IF interval = IntervalDay THEN b + TicksPerDay - 1 ELSE b

\* one row of the "candles" table: open, close, high, low, value, volume,
\* begin, end
CandleRow(interval, b, v) ==
  <<v, v + 1, v + 2, v - 1, 0, 0, b, CandleEnd(interval, b)>>

\* the provider responses to one request: up to n candles, priced from P
CandleResponses(interval, dateFrom, dateTill, n, P) ==
  {[begins |-> B, price |-> v] :
     B \in {X \in SUBSET CandleBegins(interval, dateFrom, dateTill) :
              Cardinality(X) <= n},
     v \in P}

\* the decoding of one candle row by fixed positions
ParseCandle(candle, interval) ==
  [Interval |-> interval, Begin |-> candle[7], End |-> candle[8],
   Open |-> candle[1], Close |-> candle[2], High |-> candle[3],
   Low |-> candle[4]]

\* a variant of the parse tasks that append without the mutex: an append can
\* overwrite another, so any part of the quotes arrives, in any order
ArrivalOrdersUnlocked(resp, interval) ==
  UNION {Perms(Q) :
           Q \in SUBSET {ParseCandle(CandleRow(interval, b, resp.price), interval) :
                           b \in resp.begins}}

\* the quotes of a response in the order in which the parse tasks append
\* them: any order
ArrivalOrders(resp, interval) ==
  Perms({ParseCandle(CandleRow(interval, b, resp.price), interval) :
           b \in resp.begins})

\* GetSecurityQuotes after a successful request: the batches it can build
\* (the parse tasks' appends, then the sort)
FetchedBatches(resp, interval) ==
  UNION {SortByBegin(a) : a \in ArrivalOrders(resp, interval)}

\* one row of the "history" table: the board at position 0, the security id
\* at 3, open at 6, low at 7, high at 8 and close at 11
HistoryRow(board, id, v) ==
  <<board, "", "", id, 0, 0, v, v - 1, v + 2, 0, 0, v + 1>>

\* the quote GetQuotesForDate builds from a history row for the day of date
HistoryQuotes(data, date) ==
  [Interval |-> IntervalDay, Begin |-> TruncDay(date),
   End |-> TruncDay(date + TicksPerDay),
   Open |-> data[7], Close |-> data[12], High |-> data[9], Low |-> data[8]]

\* sIds of GetQuotesForDate: the position of the list whose Security value
\* the id maps to (a later entry of the list replaces an earlier one)
LastIndexOf(list, id) ==
  CHOOSE i \in 1..Len(list) :
    /\ list[i].id = id
    /\ \A j \in (i + 1)..Len(list) : list[j].id # id

\* GetQuotesForDate once the provider has answered for the day of date with
\* the rows of the securities in ids, all of the board that is checked
GetQuotesForDate(list, date, ids, v) ==
  [i \in 1..Len(list) |->
     IF list[i].id \in ids /\ i = LastIndexOf(list, list[i].id)
     THEN SetQuotes(list[i], HistoryQuotes(HistoryRow("TQBR", list[i].id, v), date))
     ELSE list[i]]

(***************************************************************************)
(* The store: tables securities and security_quotes                        *)
(***************************************************************************)
NoError == "nil"

\* a variant of SecurityExists whose query leaves out the condition on the id
SecurityExistsByType(tbl, id, sType) ==
  IF id = "" THEN [res |-> FALSE, err |-> "security has no id", queried |-> FALSE]
  ELSE IF sType = "" \/ sType = UnknownType
       THEN [res |-> FALSE, err |-> "security has no type or type is unknown",
             queried |-> FALSE]
       ELSE [res |-> \E r \in tbl : r.type = sType, err |-> NoError,
             queried |-> TRUE]

\* a variant of SecurityExists without the check of the type: the query runs
\* with whatever type it is given
SecurityExistsNoTypeCheck(tbl, id, sType) ==
  IF id = "" THEN [res |-> FALSE, err |-> "security has no id", queried |-> FALSE]
  ELSE [res |-> \E r \in tbl : r.id = id /\ r.type = sType, err |-> NoError,
        queried |-> TRUE]

\* SecurityExists: res and err are what it returns (without a failure of the
\* query itself), queried tells whether it reached db.Query
SecurityExists(tbl, id, sType) ==
  IF id = "" THEN [res |-> FALSE, err |-> "security has no id", queried |-> FALSE]
  ELSE IF sType = "" \/ sType = UnknownType
       THEN [res |-> FALSE, err |-> "security has no type or type is unknown",
             queried |-> FALSE]
       ELSE [res |-> \E r \in tbl : r.id = id /\ r.type = sType,
             err |-> NoError, queried |-> TRUE]

\* a variant of the query that does not compare begin
SecurityQuotesExistAnyBegin(tbl, id, date, interval) ==
  \E r \in tbl : r.security = id /\ r.interv = interval

\* SecurityQuotesExist
SecurityQuotesExist(tbl, id, date, interval) ==
  \E r \in tbl : r.security = id /\ r.begin = date /\ r.interv = interval

\* the row of security_quotes built from one quote by the INSERT arguments
QuoteRow(id, interval, q) ==
  [security |-> id, begin |-> q.Begin, end |-> q.End, interv |-> interval,
   open |-> q.Open, close |-> q.Close, high |-> q.High, low |-> q.Low]

QuoteRows(id, interval, qs) ==
  [i \in 1..Len(qs) |-> QuoteRow(id, interval, qs[i])]

QuoteKey(r) == <<r.security, r.begin, r.interv>>

\* a variant of security_quotes declared without its PRIMARY KEY
QuotesNoPrimaryKey(tbl, rows) == TRUE

\* PRIMARY KEY (security, begin, interv) of security_quotes
QuotesPrimaryKeyOK(tbl, rows) ==
  /\ \A i, j \in 1..Len(rows) : i # j => QuoteKey(rows[i]) # QuoteKey(rows[j])
  /\ \A i \in 1..Len(rows) : \A r \in tbl : QuoteKey(r) # QuoteKey(rows[i])

\* a variant of security_quotes declared without its FOREIGN KEY
QuotesNoForeignKey(secs, rows) == TRUE

\* FOREIGN KEY (security) REFERENCES securities(id)
QuotesForeignKeyOK(secs, rows) ==
  \A i \in 1..Len(rows) : \E s \in secs : s.id = rows[i].security

\* PRIMARY KEY (id) of securities
SecuritiesPrimaryKeyOK(tbl, rows) ==
  /\ \A i, j \in 1..Len(rows) : i # j => rows[i].id # rows[j].id
  /\ \A i \in 1..Len(rows) : \A r \in tbl : r.id # rows[i].id

\* DELETE FROM security_quotes WHERE security = ? AND begin >= ? AND
\* begin <= ? AND interv = ?
InWindow(r, id, dateFrom, dateTill, interval) ==
  /\ r.security = id
  /\ r.begin >= dateFrom
  /\ r.begin <= dateTill
  /\ r.interv = interval

DeleteWindow(tbl, id, dateFrom, dateTill, interval) ==
  {r \in tbl : ~InWindow(r, id, dateFrom, dateTill, interval)}

\* a variant of the INSERT that is not atomic: on a constraint violation the
\* rows that violate nothing stay inserted
InsertQuotesRowByRow(tbl, secs, rows) ==
  LET ok == {i \in 1..Len(rows) :
               /\ \A r \in tbl : QuoteKey(r) # QuoteKey(rows[i])
               /\ \A j \in 1..(i - 1) : QuoteKey(rows[j]) # QuoteKey(rows[i])
               /\ \E x \in secs : x.id = rows[i].security}
      kept == tbl \cup {rows[i] : i \in ok}
  IN IF ~QuotesPrimaryKeyOK(tbl, rows)
     THEN [err |-> "duplicate entry", tbl |-> kept]
     ELSE IF ~QuotesForeignKeyOK(secs, rows)
          THEN [err |-> "foreign key constraint fails", tbl |-> kept]
          ELSE [err |-> NoError, tbl |-> kept]

\* one multi-row INSERT INTO security_quotes: all rows or, on a constraint
\* violation, none
InsertQuotes(tbl, secs, rows) ==
  IF ~QuotesPrimaryKeyOK(tbl, rows)
  THEN [err |-> "duplicate entry", tbl |-> tbl]
  ELSE IF ~QuotesForeignKeyOK(secs, rows)
       THEN [err |-> "foreign key constraint fails", tbl |-> tbl]
       ELSE [err |-> NoError, tbl |-> tbl \cup Range(rows)]

\* the errors an INSERT INTO security_quotes can return
InsertErrors == {"duplicate entry", "foreign key constraint fails", "insert failed"}

\* strings.ToLower and strings.ToUpper on the filter strings callers pass
ToLower(str) ==
  CASE str \in {"share", "SHARE", "Share"} -> "share"
    [] str \in {"etf", "ETF"} -> "etf"
    [] str \in {"bond", "BOND"} -> "bond"
    [] str \in {"currency", "CURRENCY"} -> "currency"
    [] str \in {"rub", "RUB"} -> "rub"
    [] str \in {"usd", "USD"} -> "usd"
    [] str \in {"eur", "EUR", "Eur"} -> "eur"
    [] str \in {"cny", "CNY"} -> "cny"
    [] OTHER -> str

ToUpper(str) ==
  CASE str \in {"share", "SHARE", "Share"} -> "SHARE"
    [] str \in {"etf", "ETF"} -> "ETF"
    [] str \in {"bond", "BOND"} -> "BOND"
    [] str \in {"currency", "CURRENCY"} -> "CURRENCY"
    [] str \in {"rub", "RUB"} -> "RUB"
    [] str \in {"usd", "USD"} -> "USD"
    [] str \in {"eur", "EUR", "Eur"} -> "EUR"
    [] str \in {"cny", "CNY"} -> "CNY"
    [] OTHER -> str

GetSecurityTypeFromString(typeName) ==
  IF ToLower(typeName) \in {Share, ETF, Bond, Currency}
  THEN ToLower(typeName) ELSE UnknownType

GetSecurityCurrencyFromString(currencyName) ==
  IF ToUpper(currencyName) \in {RUB, USD, EUR, CNY}
  THEN ToUpper(currencyName) ELSE UnknownCurrency

\* the order of the security ids
IdRank(id) == CASE id = "A" -> 1 [] id = "B" -> 2 [] OTHER -> 0

\* the error GetAllSecuritiesData returns for its filters
FilterError(typeNameFilter, currencyNameFilter) ==
  IF typeNameFilter # ""
     /\ GetSecurityTypeFromString(typeNameFilter) = UnknownType
  THEN "wrong type name"
  ELSE IF currencyNameFilter # ""
          /\ GetSecurityCurrencyFromString(currencyNameFilter) = UnknownCurrency
       THEN "wrong currency name"
       ELSE NoError

\* a variant of the query that joins every quote of a security, not only
\* those with the greatest end
LastPricesRowsEveryQuote(tblS, tblQ, typeNameFilter, currencyNameFilter) ==
  LET matching ==
        {r \in tblS :
           /\ typeNameFilter = "" \/ r.type = ToLower(typeNameFilter)
           /\ currencyNameFilter = "" \/ r.currency = ToUpper(currencyNameFilter)}
      of(r) == {q \in tblQ : q.security = r.id}
  IN UNION {IF of(r) = {} THEN {[s |-> r, q |-> <<>>]}
            ELSE {[s |-> r, q |-> <<q>>] : q \in of(r)} : r \in matching}

\* the rows of the query of GetAllSecuritiesData: per security that passes
\* the filters, its quotes with the greatest end, or one row without quotes
LastPricesRows(tblS, tblQ, typeNameFilter, currencyNameFilter) ==
  LET matching ==
        {r \in tblS :
           /\ typeNameFilter = "" \/ r.type = ToLower(typeNameFilter)
           /\ currencyNameFilter = "" \/ r.currency = ToUpper(currencyNameFilter)}
      of(r) == {q \in tblQ : q.security = r.id}
      last(r) == {q \in of(r) : \A o \in of(r) : o.end <= q.end}
  IN UNION {IF of(r) = {} THEN {[s |-> r, q |-> <<>>]}
            ELSE {[s |-> r, q |-> <<q>>] : q \in last(r)} : r \in matching}

\* the Security value a row task of GetAllSecuritiesData builds
SecurityOfRow(row) ==
  LET s == GetSecurity(row.s.id, row.s.name,
                       GetSecurityTypeFromString(row.s.type),
                       GetSecurityCurrencyFromString(row.s.currency))
  IN IF row.q = <<>> THEN s
     ELSE SetQuotes(s, [Interval |-> row.q[1].interv, Begin |-> row.q[1].begin,
                        End |-> row.q[1].end, Open |-> row.q[1].open,
                        Close |-> row.q[1].close, High |-> row.q[1].high,
                        Low |-> row.q[1].low])

\* the lists GetAllSecuritiesData can return: the row tasks append in any
\* order, then sort.Slice (not stable) orders the list by id
GetAllSecuritiesData(tblS, tblQ, typeNameFilter, currencyNameFilter) ==
  LET rows == LastPricesRows(tblS, tblQ, typeNameFilter, currencyNameFilter)
  IN {res \in Perms({SecurityOfRow(row) : row \in rows}) :
        \A i \in 1..(Len(res) - 1) : IdRank(res[i].id) <= IdRank(res[i + 1].id)}

\* the SecurityQuotes value a row task builds from a row of security_quotes
QuotesOfRow(r) ==
  [Interval |-> r.interv, Begin |-> r.begin, End |-> r.end, Open |-> r.open,
   Close |-> r.close, High |-> r.high, Low |-> r.low]

\* the series GetSecurityData can leave in the Security value s: the row
\* tasks append their quotes to the quotes of s in any order, then the
\* whole list is sorted by Begin
LoadedQuotes(s, tblQ) ==
  LET rows == {r \in tblQ : r.security = s.id}
  IN UNION {SortByBegin(s.quotes \o arrived) :
              arrived \in Perms({QuotesOfRow(r) : r \in rows})}

(***************************************************************************)
(* State                                                                   *)
(***************************************************************************)
VARIABLES
  securities,       \* table securities: rows [id, name, type, currency]
  security_quotes,  \* table security_quotes
  sec,              \* per caller: the Security value it passes to the store
  pc,               \* per caller: its position in the running operation
  call,             \* per caller: arguments and locals of the running operation
  prev,             \* per caller: the call it is repeating, if any
  ncalls,           \* operations issued so far
  stopped           \* the process has stopped

storeVars ==
  <<securities, security_quotes, sec, pc, call, prev, ncalls, stopped>>

\* the fan-out of GetSecuritiesData
VARIABLES
  items,            \* the list of Security values handed to the fan-out
  mainPc,           \* position of GetSecuritiesData
  spawned,          \* number of tasks started by the loop
  wg,               \* counter of the WaitGroup
  taskPc,           \* per task: its position
  taskErr,          \* per task: the error its operation returned
  invoked,          \* per task: how often its operation has run
  collPc,           \* position of collectErrors
  finErr,           \* finErr of collectErrors: the lines joined so far
  closed,           \* the channels that have been closed
  result            \* what GetSecuritiesData returned

fanVars ==
  <<items, mainPc, spawned, wg, taskPc, taskErr, invoked, collPc, finErr,
    closed, result>>

vars == <<storeVars, fanVars>>

NoCall ==
  [op |-> "none", dateFrom |-> 0, dateTill |-> 0, interval |-> 0,
   secBefore |-> <<>>, quotesBefore |-> {}, securitiesBefore |-> {},
   fetched |-> <<>>, empty |-> FALSE, contacted |-> FALSE,
   quotes |-> <<>>, deleted |-> FALSE, insertFailed |-> FALSE,
   list |-> <<>>, i |-> 0, args |-> <<>>, matched |-> {},
   res |-> FALSE, queried |-> FALSE, filter |-> <<"", "">>,
   payload |-> {}, parsed |-> FALSE, malformed |-> "", out |-> <<>>,
   history |-> <<>>, date |-> 0, types |-> <<>>, tasks |-> <<>>,
   failed |-> {},
   appends |-> <<>>,
   fault |-> FALSE, err |-> NoError]

NoPrev ==
  [op |-> "none", fetched |-> <<>>, err |-> NoError, fault |-> FALSE,
   quotesAfter |-> {}, sameValue |-> FALSE]

\* what a caller that repeats a call remembers of the finished one
Summary(p, sameValue) ==
  [op |-> call[p].op, fetched |-> call[p].fetched, err |-> call[p].err,
   fault |-> call[p].fault, quotesAfter |-> security_quotes,
   sameValue |-> sameValue]

NewCall(s, op, dateFrom, dateTill, interval) ==
  [NoCall EXCEPT !.op = op, !.dateFrom = dateFrom, !.dateTill = dateTill,
                 !.interval = interval, !.secBefore = s.quotes,
                 !.quotesBefore = security_quotes,
                 !.securitiesBefore = securities]

\* the operation of caller p ends with error e (NoError for nil)
Finish(p, c, e) ==
  /\ call' = [call EXCEPT ![p] = [c EXCEPT !.err = e]]
  /\ pc' = [pc EXCEPT ![p] = "done"]

\* an injected failure of the store or of the provider ends the operation
Fail(p, c, e) == Finish(p, [c EXCEPT !.fault = TRUE], e)

Goto(p, c, label) ==
  /\ call' = [call EXCEPT ![p] = c]
  /\ pc' = [pc EXCEPT ![p] = label]

\* a variant of the row that stores the currency of the value as it is
SecurityRowAsIs(s) ==
  [id |-> s.id, name |-> s.name, type |-> s.sType, currency |-> s.currency]

\* the row of securities AddSecurities builds for a Security value
SecurityRow(s) ==
  [id |-> s.id, name |-> s.name, type |-> s.sType,
   currency |-> IF s.currency = UnknownCurrency THEN RUB ELSE s.currency]

\* the Security values callers construct
SecurityInputs == {GetQuickSecurity(id, Share) : id \in Ids}

\* the store after CreateDatabase and the AddSecurities of the seed data
StoreInit ==
  /\ securities = {SecurityRow(GetSecurity("A", "", Share, RUB))}
  /\ security_quotes = {}
  /\ sec = [p \in Procs |-> GetQuickSecurity("A", Share)]
  /\ pc = [p \in Procs |-> "idle"]
  /\ call = [p \in Procs |-> NoCall]
  /\ prev = [p \in Procs |-> NoPrev]
  /\ ncalls = 0
  /\ stopped = FALSE

(***************************************************************************)
(* Callers                                                                 *)
(***************************************************************************)
\* the caller builds a new Security value (GetQuickSecurity)
NewSecurity(p) ==
  /\ ~stopped
  /\ pc[p] = "idle"
  /\ \E s \in SecurityInputs :
       /\ s # sec[p]
       /\ sec' = [sec EXCEPT ![p] = s]
  /\ UNCHANGED <<securities, security_quotes, pc, call, prev, ncalls, stopped>>
  /\ UNCHANGED fanVars

\* the operation returns to its caller
Return(p) ==
  /\ ~stopped
  /\ pc[p] = "done"
  /\ prev' = [prev EXCEPT ![p] = NoPrev]
  /\ call' = [call EXCEPT ![p] = NoCall]
  /\ pc' = [pc EXCEPT ![p] = "idle"]
  /\ UNCHANGED <<securities, security_quotes, sec, ncalls, stopped>>
  /\ UNCHANGED fanVars

\* the process stops while an operation is between two statements
ProcessStop ==
  /\ ~stopped
  /\ \E p \in Procs : pc[p] \notin {"idle", "done"}
  /\ stopped' = TRUE
  /\ UNCHANGED <<securities, security_quotes, sec, pc, call, prev, ncalls>>
  /\ UNCHANGED fanVars

(***************************************************************************)
(* AddSecurity / AddSecurities with the one-element list                   *)
(***************************************************************************)
\* the SecurityExists query of the loop
AddSecurity_Exists(p) ==
  /\ ~stopped
  /\ pc[p] = "idle"
  /\ ncalls < MaxCalls
  /\ ncalls' = ncalls + 1
  /\ LET c == NewCall(sec[p], "AddSecurity", 0, 0, 0)
         ex == SecurityExists(securities, sec[p].id, sec[p].sType)
     IN IF ex.err # NoError THEN Finish(p, c, ex.err)
        ELSE \/ Fail(p, c, "query failed")
             \/ IF ex.res THEN Finish(p, c, NoError)
                ELSE Goto(p, c, "add_insert")
  /\ UNCHANGED <<securities, security_quotes, sec, prev, stopped>>
  /\ UNCHANGED fanVars

\* INSERT INTO securities
AddSecurity_Insert(p) ==
  /\ ~stopped
  /\ pc[p] = "add_insert"
  /\ \/ /\ Fail(p, call[p], "insert failed")
        /\ UNCHANGED securities
     \/ IF SecuritiesPrimaryKeyOK(securities, <<SecurityRow(sec[p])>>)
        THEN /\ securities' = securities \cup {SecurityRow(sec[p])}
             /\ Finish(p, call[p], NoError)
        ELSE /\ Finish(p, call[p], "duplicate entry")
             /\ UNCHANGED securities
  /\ UNCHANGED <<security_quotes, sec, prev, ncalls, stopped>>
  /\ UNCHANGED fanVars

(***************************************************************************)
(* DeleteSecurity                                                          *)
(***************************************************************************)
DeleteSecurity_Exists(p) ==
  /\ ~stopped
  /\ pc[p] = "idle"
  /\ ncalls < MaxCalls
  /\ ncalls' = ncalls + 1
  /\ LET c == NewCall(sec[p], "DeleteSecurity", 0, 0, 0)
         ex == SecurityExists(securities, sec[p].id, sec[p].sType)
     IN IF ex.err # NoError THEN Finish(p, c, ex.err)
        ELSE \/ Fail(p, c, "query failed")
             \/ IF ~ex.res THEN Finish(p, c, NoError)
                ELSE Goto(p, c, "del_quotes")
  /\ UNCHANGED <<securities, security_quotes, sec, prev, stopped>>
  /\ UNCHANGED fanVars

\* DELETE FROM security_quotes WHERE security = ?
DeleteSecurity_Quotes(p) ==
  /\ ~stopped
  /\ pc[p] = "del_quotes"
  /\ \/ /\ Fail(p, call[p], "delete failed")
        /\ UNCHANGED security_quotes
     \/ /\ security_quotes' = {r \in security_quotes : r.security # sec[p].id}
        /\ Goto(p, [call[p] EXCEPT !.deleted = TRUE], "del_security")
  /\ UNCHANGED <<securities, sec, prev, ncalls, stopped>>
  /\ UNCHANGED fanVars

\* a variant of the second statement that reports success and leaves the row
DeleteSecurity_SecurityKept(p) ==
  /\ ~stopped
  /\ pc[p] = "del_security"
  /\ Finish(p, call[p], NoError)
  /\ UNCHANGED <<securities, security_quotes, sec, prev, ncalls, stopped>>
  /\ UNCHANGED fanVars

\* DELETE FROM securities WHERE id = ?: refused while a quote references it
DeleteSecurity_Security(p) ==
  /\ ~stopped
  /\ pc[p] = "del_security"
  /\ \/ /\ Fail(p, call[p], "delete failed")
        /\ UNCHANGED securities
     \/ IF \E r \in security_quotes : r.security = sec[p].id
        THEN /\ Finish(p, call[p], "foreign key constraint fails")
             /\ UNCHANGED securities
        ELSE /\ securities' = {r \in securities : r.id # sec[p].id}
             /\ Finish(p, call[p], NoError)
  /\ UNCHANGED <<security_quotes, sec, prev, ncalls, stopped>>
  /\ UNCHANGED fanVars

(***************************************************************************)
(* GetSecurityData                                                         *)
(***************************************************************************)
\* the caller builds a fresh Security value of its key, as every caller of
\* GetSecurityData does, and GetSecurityData runs its SecurityExists query
GetSecurityData_Exists(p) ==
  /\ ~stopped
  /\ pc[p] = "idle"
  /\ ncalls < MaxCalls
  /\ ncalls' = ncalls + 1
  /\ LET s == GetQuickSecurity(sec[p].id, sec[p].sType)
         c == NewCall(s, "GetSecurityData", 0, 0, 0)
         ex == SecurityExists(securities, s.id, s.sType)
     IN /\ sec' = [sec EXCEPT ![p] = s]
        /\ IF ex.err # NoError THEN Finish(p, c, ex.err)
           ELSE \/ Fail(p, c, "query failed")
                \/ IF ~ex.res
                   THEN Finish(p, c, "security " \o s.id \o " does not exist")
                   ELSE Goto(p, c, "load_quotes")
  /\ UNCHANGED <<securities, security_quotes, prev, stopped>>
  /\ UNCHANGED fanVars

\* the query of name and currency, the query of the quotes with its row
\* tasks, the sort and ClearAndSetQuotesList
GetSecurityData_Quotes(p) ==
  /\ ~stopped
  /\ pc[p] = "load_quotes"
  /\ \/ /\ Fail(p, call[p], "query failed")
        /\ UNCHANGED sec
     \/ IF ~\E r \in securities : r.id = sec[p].id
        THEN /\ Finish(p, call[p], "no rows in result set")
             /\ UNCHANGED sec
        ELSE \E r \in securities, q \in LoadedQuotes(sec[p], security_quotes) :
               /\ r.id = sec[p].id
               /\ sec' = [sec EXCEPT ![p] =
                            ClearAndSetQuotesList(
                              [sec[p] EXCEPT
                                 !.name = r.name,
                                 !.currency =
                                   GetSecurityCurrencyFromString(r.currency)],
                              q)]
               /\ Finish(p, call[p], NoError)
  /\ UNCHANGED <<securities, security_quotes, prev, ncalls, stopped>>
  /\ UNCHANGED fanVars

(***************************************************************************)
(* UpdateSecurityQuotes                                                    *)
(***************************************************************************)
\* the entry of UpdateSecurityQuotes on the value s, with its SecurityExists
\* query
UpdateSecurityQuotes_Enter(p, s, dateFrom, dateTill, interval) ==
  LET c == NewCall(s, "UpdateSecurityQuotes", dateFrom, dateTill, interval)
      ex == SecurityExists(securities, s.id, s.sType)
  IN IF ex.err # NoError THEN Finish(p, c, ex.err)
     ELSE \/ Fail(p, c, "query failed")
          \/ IF ~ex.res
             THEN Finish(p, c, "security " \o s.id \o " does not exist")
             ELSE Goto(p, c, "usq_fetch")

UpdateSecurityQuotes_Exists(p, W) ==
  /\ ~stopped
  /\ pc[p] = "idle"
  /\ ncalls < MaxCalls
  /\ ncalls' = ncalls + 1
  /\ \E w \in W : UpdateSecurityQuotes_Enter(p, sec[p], w[1][1], w[1][2], w[2])
  /\ UNCHANGED <<securities, security_quotes, sec, prev, stopped>>
  /\ UNCHANGED fanVars

\* the caller issues the call that has just returned once more, with the
\* same window and interval, on the same Security value or on a new one
UpdateSecurityQuotes_Repeat(p) ==
  /\ ~stopped
  /\ pc[p] = "done"
  /\ call[p].op = "UpdateSecurityQuotes"
  /\ call[p].contacted
  /\ prev[p].op = "none"
  /\ ncalls < MaxCalls
  /\ ncalls' = ncalls + 1
  /\ \E sameValue \in BOOLEAN :
       LET s == IF sameValue THEN sec[p]
                ELSE GetQuickSecurity(sec[p].id, sec[p].sType)
       IN /\ sec' = [sec EXCEPT ![p] = s]
          /\ prev' = [prev EXCEPT ![p] = Summary(p, sameValue)]
          /\ UpdateSecurityQuotes_Enter(p, s, call[p].dateFrom,
                                        call[p].dateTill, call[p].interval)
  /\ UNCHANGED <<securities, security_quotes, stopped>>
  /\ UNCHANGED fanVars

\* moex.GetSecurityQuotes, then quotes := sec.QuotesOfInterval(interval);
\* while the caller repeats a call the provider answers as it did before
UpdateSecurityQuotes_Fetch(p, n, P) ==
  /\ ~stopped
  /\ pc[p] = "usq_fetch"
  /\ LET c == [call[p] EXCEPT !.contacted = TRUE]
     IN \/ /\ Fail(p, c, "upstream unavailable")
           /\ UNCHANGED sec
        \/ \E resp \in CandleResponses(c.interval, c.dateFrom, c.dateTill, n, P) :
             \E batch \in FetchedBatches(resp, c.interval) :
               LET s == SetQuotesList(sec[p], batch)
                   quotes == QuotesOfInterval(s, c.interval)
                   d == [c EXCEPT !.fetched = batch, !.quotes = quotes,
                                  !.empty = (Len(batch) = 0),
                                  !.parsed = TRUE,
                                  !.payload =
                                    {CandleRow(c.interval, b, resp.price) :
                                       b \in resp.begins}]
               IN /\ prev[p].op # "none" => batch = prev[p].fetched
                  /\ sec' = [sec EXCEPT ![p] = s]
                  /\ IF Len(quotes) = 0 THEN Finish(p, d, NoError)
                     ELSE Goto(p, d, "usq_delete")
  /\ UNCHANGED <<securities, security_quotes, prev, ncalls, stopped>>
  /\ UNCHANGED fanVars

\* moex.GetSecurityQuotes meets a candle row it cannot decode: a date field
\* that does not parse ends in log.Fatal, a field of another type than the
\* asserted one panics in the parse task; both end the process
UpdateSecurityQuotes_FetchMalformed(p) ==
  /\ ~stopped
  /\ pc[p] = "usq_fetch"
  /\ \E kind \in {"date does not parse", "field of another type"} :
       /\ call' = [call EXCEPT ![p] = [@ EXCEPT !.contacted = TRUE,
                                                !.malformed = kind]]
       /\ pc' = [pc EXCEPT ![p] = "aborted"]
  /\ stopped' = TRUE
  /\ UNCHANGED <<securities, security_quotes, sec, prev, ncalls>>
  /\ UNCHANGED fanVars

\* DELETE FROM security_quotes over the window
UpdateSecurityQuotes_Delete(p) ==
  /\ ~stopped
  /\ pc[p] = "usq_delete"
  /\ \/ /\ Fail(p, call[p], "delete failed")
        /\ UNCHANGED security_quotes
     \/ /\ security_quotes' =
             DeleteWindow(security_quotes, sec[p].id, call[p].dateFrom,
                          call[p].dateTill, call[p].interval)
        /\ Goto(p, [call[p] EXCEPT !.deleted = TRUE], "usq_insert")
  /\ UNCHANGED <<securities, sec, prev, ncalls, stopped>>
  /\ UNCHANGED fanVars

\* INSERT INTO security_quotes of every quote in quotes
UpdateSecurityQuotes_Insert(p) ==
  /\ ~stopped
  /\ pc[p] = "usq_insert"
  /\ \/ /\ Fail(p, [call[p] EXCEPT !.insertFailed = TRUE], "insert failed")
        /\ UNCHANGED security_quotes
     \/ LET rows == QuoteRows(sec[p].id, call[p].interval, call[p].quotes)
            ins == InsertQuotes(security_quotes, securities, rows)
        IN /\ security_quotes' = ins.tbl
           /\ Finish(p, [call[p] EXCEPT !.insertFailed = (ins.err # NoError)],
                     ins.err)
  /\ UNCHANGED <<securities, sec, prev, ncalls, stopped>>
  /\ UNCHANGED fanVars

(***************************************************************************)
(* UpdateAllSecuritiesLastQuotes                                           *)
(***************************************************************************)
\* GetAllSecuritiesData
UpdateAllSecuritiesLastQuotes_Load(p, F) ==
  /\ ~stopped
  /\ pc[p] = "idle"
  /\ ncalls < MaxCalls
  /\ ncalls' = ncalls + 1
  /\ \E f \in F :
       LET c == NewCall(sec[p], "UpdateAllSecuritiesLastQuotes", 0, 0, IntervalDay)
       IN IF FilterError(f[1], f[2]) # NoError
          THEN Finish(p, c, FilterError(f[1], f[2]))
          ELSE \/ Fail(p, c, "query failed")
               \/ \E list \in GetAllSecuritiesData(securities, security_quotes,
                                                   f[1], f[2]) :
                    Goto(p, [c EXCEPT !.list = list], "uaq_fetch")
  /\ UNCHANGED <<securities, security_quotes, sec, prev, stopped>>
  /\ UNCHANGED fanVars

\* moex.GetQuotesForDate: the provider answers for the day of the call or,
\* after empty first pages, for an earlier day
UpdateAllSecuritiesLastQuotes_Fetch(p, P) ==
  /\ ~stopped
  /\ pc[p] = "uaq_fetch"
  /\ LET c == [call[p] EXCEPT !.contacted = TRUE]
     IN \/ Fail(p, c, "upstream unavailable")
        \/ \E now \in Times, date \in Times, v \in P,
              ids \in SUBSET {c.list[k].id : k \in 1..Len(c.list)} :
             /\ DateOf(date) <= DateOf(now)
             /\ date = TruncDay(date) + (now - TruncDay(now))
             /\ Goto(p, [c EXCEPT !.list = GetQuotesForDate(c.list, date, ids, v),
                                  !.matched = ids, !.i = 1],
                     "uaq_check")
  /\ UNCHANGED <<securities, security_quotes, sec, prev, ncalls, stopped>>
  /\ UNCHANGED fanVars

\* a variant of the loop that replaces the persisted quote of the key by
\* the quote of the Security value instead of skipping it
UpdateAllSecuritiesLastQuotes_CheckReplace(p) ==
  /\ ~stopped
  /\ pc[p] = "uaq_check"
  /\ call[p].i <= Len(call[p].list)
  /\ LET c == call[p]
         s == c.list[c.i]
         q == LastQuotes(s, IntervalDay)
     IN /\ security_quotes' =
             {r \in security_quotes :
                QuoteKey(r) # QuoteKey(QuoteRow(s.id, IntervalDay, q))}
        /\ Goto(p, [c EXCEPT !.i = @ + 1,
                              !.args = Append(@, QuoteRow(s.id, IntervalDay, q))],
                "uaq_check")
  /\ UNCHANGED <<securities, sec, prev, ncalls, stopped>>
  /\ UNCHANGED fanVars

\* one turn of the loop: LastQuotes and the SecurityQuotesExist query
UpdateAllSecuritiesLastQuotes_Check(p) ==
  /\ ~stopped
  /\ pc[p] = "uaq_check"
  /\ call[p].i <= Len(call[p].list)
  /\ LET c == call[p]
         s == c.list[c.i]
         q == LastQuotes(s, IntervalDay)
     IN \/ Fail(p, c, "query failed")
        \/ IF SecurityQuotesExist(security_quotes, s.id, q.Begin, IntervalDay)
           THEN Goto(p, [c EXCEPT !.i = @ + 1], "uaq_check")
           ELSE Goto(p, [c EXCEPT !.i = @ + 1,
                                  !.args = Append(@, QuoteRow(s.id, IntervalDay, q))],
                     "uaq_check")
  /\ UNCHANGED <<securities, security_quotes, sec, prev, ncalls, stopped>>
  /\ UNCHANGED fanVars

\* after the loop: nothing to insert, or the one INSERT INTO security_quotes
UpdateAllSecuritiesLastQuotes_Insert(p) ==
  /\ ~stopped
  /\ pc[p] = "uaq_check"
  /\ call[p].i > Len(call[p].list)
  /\ IF call[p].args = <<>>
     THEN /\ Finish(p, call[p], NoError)
          /\ UNCHANGED security_quotes
     ELSE \/ /\ Fail(p, [call[p] EXCEPT !.insertFailed = TRUE], "insert failed")
             /\ UNCHANGED security_quotes
          \/ LET ins == InsertQuotes(security_quotes, securities, call[p].args)
             IN /\ security_quotes' = ins.tbl
                /\ Finish(p, [call[p] EXCEPT !.insertFailed = (ins.err # NoError)],
                          ins.err)
  /\ UNCHANGED <<securities, sec, prev, ncalls, stopped>>
  /\ UNCHANGED fanVars

(***************************************************************************)
(* GetSecuritiesData: the fan-out with collectErrors                       *)
(***************************************************************************)
Tasks == 1..MaxItems

\* no fan-out is running
FanIdle ==
  /\ items = <<>>
  /\ mainPc = "idle"
  /\ spawned = 0
  /\ wg = 0
  /\ taskPc = [i \in Tasks |-> "none"]
  /\ taskErr = [i \in Tasks |-> NoError]
  /\ invoked = [i \in Tasks |-> 0]
  /\ collPc = "none"
  /\ finErr = <<>>
  /\ closed = {}
  /\ result = <<>>

\* all lists of up to n elements of S
ListsUpTo(S, n) == UNION {[1..k -> S] : k \in 0..n}

\* the error GetSecurityData returns for the Security value s
GetSecurityDataError(tbl, s) ==
  LET ex == SecurityExists(tbl, s.id, s.sType)
  IN IF ex.err # NoError THEN ex.err
     ELSE IF ~ex.res THEN "security " \o s.id \o " does not exist"
     ELSE NoError

\* a variant of collectErrors that keeps the error received last
JoinErrorKeepLast(lines, err) == <<err>>

\* collectErrors, case err = <-errChan: the first error as it is, a later
\* one on a new line (finErr is kept as the list of its lines)
JoinError(lines, err) ==
  IF lines = <<>> THEN <<err>> ELSE Append(lines, err)

\* a variant of GetSecuritiesData without wg.Wait()
WaitReturnsAtOnce(counter) == TRUE

\* wg.Wait() returns: the counter of the WaitGroup is zero
WaitReturns(counter) == counter = 0

\* GetSecuritiesData is called: the channels are made and collectErrors is
\* started
FanInit ==
  /\ items \in ListsUpTo(SecurityInputs, MaxItems)
  /\ mainPc = "spawn"
  /\ spawned = 0
  /\ wg = 0
  /\ taskPc = [i \in Tasks |-> "none"]
  /\ taskErr = [i \in Tasks |-> NoError]
  /\ invoked = [i \in Tasks |-> 0]
  /\ collPc = "select"
  /\ finErr = <<>>
  /\ closed = {}
  /\ result = <<>>

\* one turn of the loop: wg.Add(1) and the go statement
Spawn ==
  /\ mainPc = "spawn"
  /\ spawned < Len(items)
  /\ spawned' = spawned + 1
  /\ wg' = wg + 1
  /\ taskPc' = [taskPc EXCEPT ![spawned + 1] = "run"]
  /\ UNCHANGED <<items, mainPc, taskErr, invoked, collPc, finErr, closed, result>>
  /\ UNCHANGED storeVars

\* the loop is over
SpawnEnd ==
  /\ mainPc = "spawn"
  /\ spawned = Len(items)
  /\ mainPc' = "wait"
  /\ UNCHANGED <<items, spawned, wg, taskPc, taskErr, invoked, collPc, finErr,
                 closed, result>>
  /\ UNCHANGED storeVars

\* a task runs GetSecurityData on its item, which returns its own error or
\* the error of a query that failed
TaskRun(i) ==
  /\ taskPc[i] = "run"
  /\ invoked' = [invoked EXCEPT ![i] = @ + 1]
  /\ \E err \in {GetSecurityDataError(securities, items[i]), "query failed"} :
        /\ taskErr' = [taskErr EXCEPT ![i] = err]
        /\ IF err # NoError
           THEN /\ taskPc' = [taskPc EXCEPT ![i] = "send"]
                /\ wg' = wg
           ELSE /\ taskPc' = [taskPc EXCEPT ![i] = "done"]
                /\ wg' = wg - 1
  /\ UNCHANGED <<items, mainPc, spawned, collPc, finErr, closed, result>>
  /\ UNCHANGED storeVars

\* errChan <- err: a send on the closed channel panics, otherwise it meets
\* case err = <-errChan of collectErrors; then the deferred wg.Done()
TaskSend(i) ==
  /\ taskPc[i] = "send"
  /\ IF "errChan" \in closed
     THEN /\ taskPc' = [taskPc EXCEPT ![i] = "panic"]
          /\ UNCHANGED <<finErr, wg>>
     ELSE /\ collPc = "select"
          /\ finErr' = JoinError(finErr, taskErr[i])
          /\ taskPc' = [taskPc EXCEPT ![i] = "done"]
          /\ wg' = wg - 1
  /\ UNCHANGED <<items, mainPc, spawned, taskErr, invoked, collPc, closed, result>>
  /\ UNCHANGED storeVars

\* wg.Wait() returns
Wait ==
  /\ mainPc = "wait"
  /\ WaitReturns(wg)
  /\ mainPc' = "quit"
  /\ UNCHANGED <<items, spawned, wg, taskPc, taskErr, invoked, collPc, finErr,
                 closed, result>>
  /\ UNCHANGED storeVars

\* quitChan <- true meets case <-quitChan of collectErrors
Quit ==
  /\ mainPc = "quit"
  /\ collPc = "select"
  /\ mainPc' = "receive"
  /\ collPc' = "close"
  /\ UNCHANGED <<items, spawned, wg, taskPc, taskErr, invoked, finErr, closed,
                 result>>
  /\ UNCHANGED storeVars

\* a variant of collectErrors that goes on with the loop after case <-quitChan
CollectorCloseAndSelect ==
  /\ collPc = "close"
  /\ closed' = closed \cup {"errChan", "quitChan"}
  /\ collPc' = "select"
  /\ UNCHANGED <<items, mainPc, spawned, wg, taskPc, taskErr, invoked, finErr,
                 result>>
  /\ UNCHANGED storeVars

\* collectErrors closes errChan and quitChan
CollectorClose ==
  /\ collPc = "close"
  /\ closed' = closed \cup {"errChan", "quitChan"}
  /\ collPc' = "send"
  /\ UNCHANGED <<items, mainPc, spawned, wg, taskPc, taskErr, invoked, finErr,
                 result>>
  /\ UNCHANGED storeVars

\* finErrChan <- finErr meets err := <-finErrChan; collectErrors returns,
\* GetSecuritiesData closes finErrChan and returns err
Receive ==
  /\ mainPc = "receive"
  /\ collPc = "send"
  /\ result' = finErr
  /\ closed' = closed \cup {"finErrChan"}
  /\ collPc' = "returned"
  /\ mainPc' = "returned"
  /\ UNCHANGED <<items, spawned, wg, taskPc, taskErr, invoked, finErr>>
  /\ UNCHANGED storeVars

NextFan ==
  \/ Spawn
  \/ SpawnEnd
  \/ \E i \in Tasks : TaskRun(i)
  \/ \E i \in Tasks : TaskSend(i)
  \/ Wait
  \/ Quit
  \/ CollectorClose
  \/ Receive

\* the store of the fan-out: the seeded security is registered or not
FanStoreInit ==
  /\ securities \in SUBSET {SecurityRow(GetSecurity("A", "", Share, RUB))}
  /\ security_quotes = {}
  /\ sec = [p \in Procs |-> GetQuickSecurity("A", Share)]
  /\ pc = [p \in Procs |-> "idle"]
  /\ call = [p \in Procs |-> NoCall]
  /\ prev = [p \in Procs |-> NoPrev]
  /\ ncalls = 0
  /\ stopped = FALSE

\* GetSecuritiesData called on a store that holds the seeded security or none
InitFan == FanStoreInit /\ FanInit

SpecFan == InitFan /\ [][NextFan]_vars

\* the goroutines are scheduled and every per-item operation returns: a
\* step that can be taken is taken
SpecFanLive == InitFan /\ [][NextFan]_vars /\ WF_vars(NextFan)

(***************************************************************************)
(* Specifications of the store                                             *)
(***************************************************************************)
\* the windows and intervals callers ask for: both days, one day, and a
\* window from the trading hours of one day to the midnight of the next
Windows == {<<0, 3>>, <<0, 1>>, <<2, 3>>, <<1, 2>>} \X Intervals

\* the type and currency filters callers pass
Filters == {<<"", "">>, <<"share", "RUB">>}

\* the steps of caller p, with windows from W, filters from F and provider
\* responses of up to n candles priced from P
Step(p, W, F, n, P) ==
  \/ NewSecurity(p)
  \/ Return(p)
  \/ AddSecurity_Exists(p)
  \/ AddSecurity_Insert(p)
  \/ DeleteSecurity_Exists(p)
  \/ DeleteSecurity_Quotes(p)
  \/ DeleteSecurity_Security(p)
  \/ UpdateSecurityQuotes_Exists(p, W)
  \/ UpdateSecurityQuotes_Fetch(p, n, P)
  \/ UpdateSecurityQuotes_FetchMalformed(p)
  \/ UpdateSecurityQuotes_Delete(p)
  \/ UpdateSecurityQuotes_Insert(p)
  \/ UpdateAllSecuritiesLastQuotes_Load(p, F)
  \/ UpdateAllSecuritiesLastQuotes_Fetch(p, P)
  \/ UpdateAllSecuritiesLastQuotes_Check(p)
  \/ UpdateAllSecuritiesLastQuotes_Insert(p)

\* one caller: the operations run one after the other
Next ==
  \/ Step(1, Windows, Filters, MaxFetch, Prices)
  \/ UpdateSecurityQuotes_Repeat(1)
  \/ GetSecurityData_Exists(1)
  \/ GetSecurityData_Quotes(1)
  \/ ProcessStop

\* the seeded store, no fan-out running
Init == StoreInit /\ FanIdle

Spec == Init /\ [][Next]_vars

\* concurrent callers: the statements of their operations interleave
ConcWindows == {<<0, 3>>, <<2, 3>>, <<1, 2>>} \X {IntervalDay}

ConcFilters == {<<"", "">>}

ConcPrices == {1}

NextConc ==
  \E p \in Procs : Step(p, ConcWindows, ConcFilters, MaxFetch, ConcPrices)

SpecConc == Init /\ [][NextConc]_vars

\* concurrent callers of UpdateAllSecuritiesLastQuotes on a store with two
\* registered securities
InitUpsert ==
  /\ securities = {SecurityRow(GetSecurity(id, "", Share, RUB)) : id \in Ids}
  /\ security_quotes = {}
  /\ sec = [p \in Procs |-> GetQuickSecurity("A", Share)]
  /\ pc = [p \in Procs |-> "idle"]
  /\ call = [p \in Procs |-> NoCall]
  /\ prev = [p \in Procs |-> NoPrev]
  /\ ncalls = 0
  /\ stopped = FALSE
  /\ FanIdle

NextUpsert ==
  \E p \in Procs :
    \/ UpdateAllSecuritiesLastQuotes_Load(p, ConcFilters)
    \/ UpdateAllSecuritiesLastQuotes_Fetch(p, ConcPrices)
    \/ UpdateAllSecuritiesLastQuotes_Check(p)
    \/ UpdateAllSecuritiesLastQuotes_Insert(p)
    \/ Return(p)

SpecUpsert == InitUpsert /\ [][NextUpsert]_vars

(***************************************************************************)
(* The registry of securities: SecurityExists, AddSecurity, AddSecurities, *)
(* DeleteSecurity and GetAllSecuritiesData with keys of every kind         *)
(***************************************************************************)
\* the longest list handed to AddSecurities
MaxBatch == 2

\* the Security values the callers of the registry construct: keys without
\* id, without type, of unknown type, one id under two types, and values
\* with every declared currency
RegInputs ==
  {GetQuickSecurity("", Share), GetQuickSecurity("A", ""),
   GetQuickSecurity("A", UnknownType), GetQuickSecurity("A", Share),
   GetQuickSecurity("A", ETF), GetQuickSecurity("B", Share),
   GetSecurity("B", "", ETF, USD), GetSecurity("B", "", Bond, EUR),
   GetSecurity("B", "", Currency, CNY)}

\* the lists handed to AddSecurities: entries already persisted or not, one id
\* more than once, under one type or two, and an entry of unknown type
BatchInputs ==
  {GetQuickSecurity("A", UnknownType), GetQuickSecurity("A", Share),
   GetQuickSecurity("A", ETF), GetQuickSecurity("B", Share),
   GetSecurity("B", "", ETF, USD)}

Batches == ListsUpTo(BatchInputs, MaxBatch)

\* the filters handed to GetAllSecuritiesData
RegFilters ==
  {<<"", "">>, <<"Share", "">>, <<"", "usd">>, <<"ETF", "RUB">>,
   <<"bond", "Eur">>, <<"stock", "">>, <<"", "GBP">>}

\* the rows UpdateSecurityQuotes persists for a fresh Security value and the
\* provider response resp
SeedRows(id, resp) ==
  {QuoteRow(id, IntervalDay,
            ParseCandle(CandleRow(IntervalDay, b, resp.price), IntervalDay)) :
     b \in resp.begins}

\* the rows an UpdateSecurityQuotes of the hour interval persists for a fresh
\* Security value and the provider response resp
HourSeedRows(id, resp) ==
  {QuoteRow(id, IntervalHour,
            ParseCandle(CandleRow(IntervalHour, b, resp.price), IntervalHour)) :
     b \in resp.begins}

\* the store after CreateDatabase alone, or after PutTestDataInDatabase:
\* shares and ETFs in RUB with the day candles the provider held for each,
\* and with the hour candles of the first day a later UpdateSecurityQuotes
\* of A has persisted
InitReg ==
  /\ \/ /\ securities = {}
        /\ security_quotes = {}
     \/ /\ securities = {SecurityRow(GetSecurity("A", "", Share, RUB)),
                         SecurityRow(GetSecurity("B", "", ETF, RUB))}
        /\ \E ra, rb \in CandleResponses(IntervalDay, 0, 3, MaxFetch, ConcPrices),
              rh \in CandleResponses(IntervalHour, 0, 1, 1, ConcPrices) :
             security_quotes =
               SeedRows("A", ra) \cup SeedRows("B", rb) \cup HourSeedRows("A", rh)
  /\ sec = [p \in Procs |-> GetQuickSecurity("A", Share)]
  /\ pc = [p \in Procs |-> "idle"]
  /\ call = [p \in Procs |-> NoCall]
  /\ prev = [p \in Procs |-> NoPrev]
  /\ ncalls = 0
  /\ stopped = FALSE
  /\ FanIdle

\* the caller builds another Security value
NewKey(p) ==
  /\ ~stopped
  /\ pc[p] = "idle"
  /\ \E s \in RegInputs :
       /\ s # sec[p]
       /\ sec' = [sec EXCEPT ![p] = s]
  /\ UNCHANGED <<securities, security_quotes, pc, call, prev, ncalls, stopped>>
  /\ UNCHANGED fanVars

\* SecurityExists called by itself
SecurityExists_Call(p) ==
  /\ ~stopped
  /\ pc[p] = "idle"
  /\ ncalls < MaxCalls
  /\ ncalls' = ncalls + 1
  /\ LET c == NewCall(sec[p], "SecurityExists", 0, 0, 0)
         ex == SecurityExists(securities, sec[p].id, sec[p].sType)
     IN \/ Finish(p, [c EXCEPT !.res = ex.res, !.queried = ex.queried], ex.err)
        \/ /\ ex.queried
           /\ Fail(p, [c EXCEPT !.queried = TRUE], "query failed")
  /\ UNCHANGED <<securities, security_quotes, sec, prev, stopped>>
  /\ UNCHANGED fanVars

\* AddSecurities is entered with a list
AddSecurities_Enter(p, B) ==
  /\ ~stopped
  /\ pc[p] = "idle"
  /\ ncalls < MaxCalls
  /\ ncalls' = ncalls + 1
  /\ \E batch \in B :
       Goto(p, [NewCall(sec[p], "AddSecurities", 0, 0, 0)
                  EXCEPT !.list = batch, !.i = 1], "adds_check")
  /\ UNCHANGED <<securities, security_quotes, sec, prev, stopped>>
  /\ UNCHANGED fanVars

\* a variant of the loop that goes on with the next entry when
\* SecurityExists refuses the key of an entry
AddSecurities_CheckSkipInvalid(p) ==
  /\ ~stopped
  /\ pc[p] = "adds_check"
  /\ call[p].i <= Len(call[p].list)
  /\ LET c == call[p]
         s == c.list[c.i]
         ex == SecurityExists(securities, s.id, s.sType)
     IN IF ex.err # NoError THEN Goto(p, [c EXCEPT !.i = @ + 1], "adds_check")
        ELSE \/ Fail(p, c, "query failed")
             \/ IF ex.res THEN Goto(p, [c EXCEPT !.i = @ + 1], "adds_check")
                ELSE Goto(p, [c EXCEPT !.i = @ + 1,
                                       !.args = Append(@, SecurityRow(s))],
                          "adds_check")
  /\ UNCHANGED <<securities, security_quotes, sec, prev, ncalls, stopped>>
  /\ UNCHANGED fanVars

\* one turn of the loop: the SecurityExists query, then the entry is skipped
\* or its row is added to the arguments of the INSERT
AddSecurities_Check(p) ==
  /\ ~stopped
  /\ pc[p] = "adds_check"
  /\ call[p].i <= Len(call[p].list)
  /\ LET c == call[p]
         s == c.list[c.i]
         ex == SecurityExists(securities, s.id, s.sType)
     IN IF ex.err # NoError THEN Finish(p, c, ex.err)
        ELSE \/ Fail(p, c, "query failed")
             \/ IF ex.res THEN Goto(p, [c EXCEPT !.i = @ + 1], "adds_check")
                ELSE Goto(p, [c EXCEPT !.i = @ + 1,
                                       !.args = Append(@, SecurityRow(s))],
                          "adds_check")
  /\ UNCHANGED <<securities, security_quotes, sec, prev, ncalls, stopped>>
  /\ UNCHANGED fanVars

\* after the loop: nothing to insert, or the one INSERT INTO securities
AddSecurities_Insert(p) ==
  /\ ~stopped
  /\ pc[p] = "adds_check"
  /\ call[p].i > Len(call[p].list)
  /\ IF call[p].args = <<>>
     THEN /\ Finish(p, call[p], NoError)
          /\ UNCHANGED securities
     ELSE \/ /\ Fail(p, call[p], "insert failed")
             /\ UNCHANGED securities
          \/ IF SecuritiesPrimaryKeyOK(securities, call[p].args)
             THEN /\ securities' = securities \cup Range(call[p].args)
                  /\ Finish(p, call[p], NoError)
             ELSE /\ Finish(p, call[p], "duplicate entry")
                  /\ UNCHANGED securities
  /\ UNCHANGED <<security_quotes, sec, prev, ncalls, stopped>>
  /\ UNCHANGED fanVars

\* GetAllSecuritiesData called by itself
GetAllSecuritiesData_Call(p, F) ==
  /\ ~stopped
  /\ pc[p] = "idle"
  /\ ncalls < MaxCalls
  /\ ncalls' = ncalls + 1
  /\ \E f \in F :
       LET c == [NewCall(sec[p], "GetAllSecuritiesData", 0, 0, 0)
                   EXCEPT !.filter = f]
       IN IF FilterError(f[1], f[2]) # NoError
          THEN Finish(p, c, FilterError(f[1], f[2]))
          ELSE \/ Fail(p, c, "query failed")
               \/ \E list \in GetAllSecuritiesData(securities, security_quotes,
                                                   f[1], f[2]) :
                    Finish(p, [c EXCEPT !.list = list], NoError)
  /\ UNCHANGED <<securities, security_quotes, sec, prev, stopped>>
  /\ UNCHANGED fanVars

NextReg ==
  \/ NewKey(1)
  \/ Return(1)
  \/ SecurityExists_Call(1)
  \/ AddSecurity_Exists(1)
  \/ AddSecurity_Insert(1)
  \/ AddSecurities_Enter(1, Batches)
  \/ AddSecurities_Check(1)
  \/ AddSecurities_Insert(1)
  \/ DeleteSecurity_Exists(1)
  \/ DeleteSecurity_Quotes(1)
  \/ DeleteSecurity_Security(1)
  \/ GetAllSecuritiesData_Call(1, RegFilters)

SpecReg == InitReg /\ [][NextReg]_vars

(***************************************************************************)
(* package main: the figures the handlers derive from a series             *)
(***************************************************************************)
\* float64 values are kept as exact fractions n / d with d > 0, in lowest
\* terms
Abs(x) == IF x < 0 THEN 0 - x ELSE x

RECURSIVE GCD(_, _)
GCD(a, b) == IF b = 0 THEN a ELSE GCD(b, a % b)

Frac(n, d) ==
  LET g == GCD(Abs(n), Abs(d))
      s == IF d < 0 THEN 0 - 1 ELSE 1
  IN [n |-> (s * n) \div g, d |-> (s * d) \div g]

Zero == Frac(0, 1)

\* a - b
FracSub(a, b) == Frac(a.n * b.d - b.n * a.d, a.d * b.d)

\* a < b
FracLess(a, b) == a.n * b.d < b.n * a.d

\* a variant of the change that is the difference of the two prices
PriceDifference(price, base) == Frac(price - base, 1)

\* (price - base) / base * 100
PercentChange(price, base) == Frac((price - base) * 100, base)

\* n / d rounded to an integer, a half to the even neighbour
RoundHalfEven(n, d) ==
  LET q == n \div d
      r == n - q * d
  IN IF 2 * r < d THEN q
     ELSE IF 2 * r > d THEN q + 1
     ELSE IF q % 2 = 0 THEN q ELSE q + 1

\* math.Round of n / d: a half is rounded away from zero
Round(n, d) ==
  IF n >= 0 THEN (2 * n + d) \div (2 * d)
  ELSE 0 - ((2 * (0 - n) + d) \div (2 * d))

\* fmt.Sprintf("%.2f", x): the text is kept as its number of hundredths
Sprintf2(x) == <<RoundHalfEven(x.n * 100, x.d)>>

\* the digits "%f" prints after the point
Micro == 1000000

\* fmt.Sprintf("%f", x) of a price: the text is kept as its number of
\* millionths
FormatFloat(x) == <<x * Micro>>

\* strconv.ParseFloat: the empty text does not parse
ParseFloat(s) ==
  IF s = <<>> THEN [val |-> 0, err |-> "invalid syntax"]
  ELSE [val |-> s[1] \div Micro, err |-> NoError]

\* time.Format("02.01.2006 15:04:05"): the calendar day and the time of day
FormatTime(t) == [date |-> DateOf(t), clock |-> t % TicksPerDay]

\* time.Parse("02.01.2006 15:04:05")
ParseTime(s) == s.date * TicksPerDay + s.clock

\* dateFrom and dateTill of the handlers for the days from and till:
\* midnight of the first day, the last second of the last day
WindowOf(from, till) ==
  <<from * TicksPerDay, till * TicksPerDay + (TicksPerDay - 1)>>

\* a variant of the baseline that moves to every retained quote
NextStartPriceLatest(startPrice, close) == close

\* startPrice after a retained quote: it is set while it is 0.0
NextStartPrice(startPrice, close) ==
  IF startPrice # 0 THEN startPrice ELSE close

\* totalChange of a retained quote
TotalChange(startPrice, close) ==
  IF startPrice # 0 THEN PercentChange(close, startPrice) ELSE Zero

\* change of a retained quote
DayChange(prevPrice, close) ==
  IF prevPrice # 0 THEN PercentChange(close, prevPrice) ELSE Zero

\* the loop of getSecurityDataHandler over the quotes of the interval
RECURSIVE ExpQuotesFrom(_, _, _, _, _, _)
ExpQuotesFrom(quotes, i, dateFrom, dateTill, startPrice, prevPrice) ==
  IF i > Len(quotes) THEN <<>>
  ELSE LET q == quotes[i] IN
    IF dateFrom > q.End \/ q.End > dateTill
    THEN ExpQuotesFrom(quotes, i + 1, dateFrom, dateTill, startPrice, prevPrice)
    ELSE <<[Interval |-> q.Interval,
            Begin |-> FormatTime(q.Begin),
            End |-> FormatTime(q.End),
            Open |-> FormatFloat(q.Open),
            Close |-> FormatFloat(q.Close),
            High |-> FormatFloat(q.High),
            Low |-> FormatFloat(q.Low),
            Change |-> Sprintf2(DayChange(prevPrice, q.Close)),
            TotalChange |-> Sprintf2(TotalChange(startPrice, q.Close))]>>
         \o ExpQuotesFrom(quotes, i + 1, dateFrom, dateTill,
                          NextStartPrice(startPrice, q.Close), q.Close)

\* ExpQuotes of the securityData getSecurityDataHandler answers with
ExpQuotes(s, interval, dateFrom, dateTill) ==
  ExpQuotesFrom(QuotesOfInterval(s, interval), 1, dateFrom, dateTill, 0, 0)

\* the zero value of compQuotes: every text is empty
NewCompQuotes ==
  [Date |-> <<>>, Price1 |-> <<>>, Price2 |-> <<>>, DayProfit |-> <<>>,
   TotalProfit |-> <<>>]

\* time.Format("02.01.2006") of a midnight
FormatDate(date) == <<DateOf(date)>>

\* the loops of compareHandler over the ExpQuotes of a leg: the entry of
\* the day of End takes the close, a later quote of the day replaces it
RECURSIVE ResultWithLeg(_, _, _, _)
ResultWithLeg(comp, exp, i, leg) ==
  IF i > Len(exp) THEN comp
  ELSE LET date == TruncDay(ParseTime(exp[i].End))
           old == IF date \in DOMAIN comp THEN comp[date] ELSE NewCompQuotes
           new == IF leg = 1
                  THEN [old EXCEPT !.Date = FormatDate(date), !.Price1 = exp[i].Close]
                  ELSE [old EXCEPT !.Date = FormatDate(date), !.Price2 = exp[i].Close]
       IN ResultWithLeg([d \in DOMAIN comp \cup {date} |->
                           IF d = date THEN new ELSE comp[d]],
                        exp, i + 1, leg)

\* a variant of the test that asks for the price of the first leg only
HasFirstPrice(q) == q.Price1 # <<>>

\* an entry takes part in the spread when both prices are set
HasBothPrices(q) == q.Price1 # <<>> /\ q.Price2 # <<>>

\* a variant of the change of a leg that is always 0
SpreadChangeZero(base, pr) == Zero

\* dayChange and totalChange of a leg in compareHandler
SpreadChange(base, pr) ==
  IF base > 0 THEN PercentChange(pr, base) ELSE Zero

\* startPrice of a leg after an entry: it is set while it is not positive
SpreadStartPrice(startPrice, pr) == IF startPrice > 0 THEN startPrice ELSE pr

\* the locals of the spread loop of compareHandler before its first entry
NoSpreadPrices ==
  [startPrice1 |-> 0, prevPrice1 |-> 0, startPrice2 |-> 0, prevPrice2 |-> 0]

\* the spread loop of compareHandler over the days from date to dateTill
RECURSIVE SpreadFrom(_, _, _, _)
SpreadFrom(comp, date, dateTill, st) ==
  IF date > dateTill THEN [result |-> comp, err |-> NoError]
  ELSE IF date \notin DOMAIN comp THEN
    SpreadFrom(comp, date + TicksPerDay, dateTill, st)
  ELSE IF ~HasBothPrices(comp[date]) THEN
    SpreadFrom(comp, date + TicksPerDay, dateTill, st)
  ELSE
    LET pr1 == ParseFloat(comp[date].Price1)
        pr2 == ParseFloat(comp[date].Price2)
    IN IF pr1.err # NoError THEN [result |-> comp, err |-> pr1.err]
       ELSE IF pr2.err # NoError THEN [result |-> comp, err |-> pr2.err]
       ELSE
         LET dayChange1 == SpreadChange(st.prevPrice1, pr1.val)
             totalChange1 == SpreadChange(st.startPrice1, pr1.val)
             dayChange2 == SpreadChange(st.prevPrice2, pr2.val)
             totalChange2 == SpreadChange(st.startPrice2, pr2.val)
             q == [comp[date] EXCEPT
                     !.DayProfit = Sprintf2(FracSub(dayChange1, dayChange2)),
                     !.TotalProfit = Sprintf2(FracSub(totalChange1, totalChange2))]
         IN SpreadFrom([comp EXCEPT ![date] = q], date + TicksPerDay, dateTill,
                       [startPrice1 |-> SpreadStartPrice(st.startPrice1, pr1.val),
                        prevPrice1 |-> pr1.val,
                        startPrice2 |-> SpreadStartPrice(st.startPrice2, pr2.val),
                        prevPrice2 |-> pr2.val])

\* compareHandler once both legs have answered with exp1 and exp2
CompareResult(exp1, exp2, dateFrom, dateTill) ==
  SpreadFrom(ResultWithLeg(ResultWithLeg(<<>>, exp1, 1, 1), exp2, 1, 2),
             dateFrom, dateTill, NoSpreadPrices)

\* change of a security in securityListHandler, in percent with two places
RankChange(priceBegin, priceEnd) ==
  IF priceBegin > 0
  THEN Frac(Round((priceEnd - priceBegin) * 10000, priceBegin), 100)
  ELSE Zero

\* the secPrices a task of securityListHandler appends for its Security
SecPrices(s, dateFrom, dateTill) ==
  LET priceBegin ==
        QuotesForDate(s, IntervalDay, TruncDay(dateFrom) + TicksPerDay).Open
      priceEnd ==
        QuotesForDate(s, IntervalDay, TruncDay(dateTill) + TicksPerDay).Close
  IN [id |-> s.id, priceBegin |-> priceBegin, priceEnd |-> priceEnd,
      change |-> RankChange(priceBegin, priceEnd)]

\* a variant of the comparison that looks at the change only
SecPricesLessByChange(a, b) == FracLess(a.change, b.change)

\* less of the sort.Slice of securityListHandler
SecPricesLess(a, b) ==
  \/ FracLess(a.change, b.change)
  \/ a.change = b.change /\ IdRank(a.id) < IdRank(b.id)

\* sort.Slice of secQuotes: no element is less than one before it
SortSecPrices(s) ==
  {r \in Reorderings(s) :
     \A i, j \in 1..Len(r) : i < j => ~SecPricesLess(r[j], r[i])}

(***************************************************************************)
(* Specification of the handlers that derive figures                       *)
(***************************************************************************)
\* a day candle of the provider
DayCandle(d, open, close) ==
  ParseCandle(<<open, close, IF open > close THEN open ELSE close,
                IF open > close THEN close ELSE open, 0, 0,
                d * TicksPerDay, CandleEnd(IntervalDay, d * TicksPerDay)>>,
              IntervalDay)

\* a quote GetQuotesForDate has set for the day: it ends with the day
DaySnapshot(d, open, close) ==
  [Interval |-> IntervalDay, Begin |-> d * TicksPerDay,
   End |-> d * TicksPerDay + TicksPerDay,
   Open |-> open, Close |-> close, High |-> close, Low |-> open]

\* what the first security has for a day: nothing or a candle
FirstLegQuotes(d) ==
  {<<>>} \cup
  {<<DayCandle(d, oc[1], oc[2])>> :
     oc \in {<<100, 100>>, <<100, 110>>, <<110, 99>>, <<0, 0>>, <<10, 12>>}}

\* what the second security has for a day: nothing, a candle or a snapshot
SecondLegQuotes(d) ==
  {<<>>, <<DayCandle(d, 100, 100)>>, <<DayCandle(d, 50, 45)>>,
   <<DaySnapshot(d, 50, 55)>>}

\* the windows the handlers are asked for, as first and last day
CalcWindows == {<<0, 2>>, <<1, 2>>, <<0, 0>>, <<1, 1>>}

\* both securities are registered; each Security value holds the series
\* GetSecurityData has loaded for it, sorted by begin
InitCalc ==
  /\ securities = {SecurityRow(GetSecurity("A", "", Share, RUB)),
                   SecurityRow(GetSecurity("B", "", Share, RUB))}
  /\ \E a0 \in FirstLegQuotes(0), a1 \in FirstLegQuotes(1),
        a2 \in FirstLegQuotes(2), b0 \in SecondLegQuotes(0),
        b1 \in SecondLegQuotes(1), b2 \in SecondLegQuotes(2) :
       /\ sec = [p \in Procs |->
                   IF p = 1
                   THEN SetQuotesList(GetQuickSecurity("A", Share), a0 \o a1 \o a2)
                   ELSE SetQuotesList(GetQuickSecurity("B", Share), b0 \o b1 \o b2)]
       /\ security_quotes =
            Range(QuoteRows("A", IntervalDay, a0 \o a1 \o a2)) \cup
            Range(QuoteRows("B", IntervalDay, b0 \o b1 \o b2))
  /\ pc = [p \in Procs |-> "idle"]
  /\ call = [p \in Procs |-> NoCall]
  /\ prev = [p \in Procs |-> NoPrev]
  /\ ncalls = 0
  /\ stopped = FALSE
  /\ FanIdle

\* getSecurityDataHandler for the security p and a window: the loop over
\* the loaded quotes
getSecurityDataHandler_Changes(p) ==
  /\ ~stopped
  /\ pc[1] = "idle"
  /\ \E w \in CalcWindows :
       LET dateFrom == WindowOf(w[1], w[2])[1]
           dateTill == WindowOf(w[1], w[2])[2]
           c == NewCall(sec[p], "getSecurityDataHandler", dateFrom, dateTill,
                        IntervalDay)
       IN Finish(1, [c EXCEPT !.i = p,
                              !.out = ExpQuotes(sec[p], IntervalDay, dateFrom,
                                                dateTill)],
                 NoError)
  /\ UNCHANGED <<securities, security_quotes, sec, prev, ncalls, stopped>>
  /\ UNCHANGED fanVars

\* compareHandler for the two securities and a window: both legs are
\* requested from getSecurityDataHandler, then the result is built
compareHandler_Spread ==
  /\ ~stopped
  /\ pc[1] = "idle"
  /\ \E w \in CalcWindows :
       LET dateFrom == WindowOf(w[1], w[2])[1]
           dateTill == WindowOf(w[1], w[2])[2]
           c == NewCall(sec[1], "compareHandler", dateFrom, dateTill,
                        IntervalDay)
           r == CompareResult(ExpQuotes(sec[1], IntervalDay, dateFrom, dateTill),
                              ExpQuotes(sec[2], IntervalDay, dateFrom, dateTill),
                              dateFrom, dateTill)
       IN Finish(1, [c EXCEPT !.out = r.result], r.err)
  /\ UNCHANGED <<securities, security_quotes, sec, prev, ncalls, stopped>>
  /\ UNCHANGED fanVars

\* the Security value of a task of securityListHandler holds candles of the
\* window only: UpdateSecurityQuotes has set them on a new value
FetchedFor(s, dateFrom, dateTill) ==
  \A k \in 1..Len(s.quotes) :
    /\ s.quotes[k].End = CandleEnd(IntervalDay, s.quotes[k].Begin)
    /\ DateOf(dateFrom) <= DateOf(s.quotes[k].Begin)
    /\ DateOf(s.quotes[k].Begin) <= DateOf(dateTill)

\* securityListHandler for the two securities and a window, from its tasks
\* to the sort. The tasks share the variable err without a lock: a task
\* goes on when the err it reads is nil, and it may read its own or the
\* other task's. The tasks append in any order.
securityListHandler_Rank ==
  /\ ~stopped
  /\ pc[1] = "idle"
  /\ \E w \in CalcWindows, failed \in SUBSET Procs, seen \in [Procs -> Procs] :
       LET dateFrom == WindowOf(w[1], w[2])[1]
           dateTill == WindowOf(w[1], w[2])[2]
           c == NewCall(sec[1], "securityListHandler", dateFrom, dateTill,
                        IntervalDay)
           held == [p \in Procs |->
                      IF p \in failed THEN GetQuickSecurity(sec[p].id, Share)
                      ELSE sec[p]]
           appending == {p \in Procs : seen[p] \notin failed}
       IN /\ \A p \in Procs : FetchedFor(sec[p], dateFrom, dateTill)
          /\ \E order \in Perms(appending) :
               \E sorted \in SortSecPrices(
                    [k \in 1..Len(order) |->
                       SecPrices(held[order[k]], dateFrom, dateTill)]) :
                 Finish(1, [c EXCEPT !.matched = appending, !.failed = failed,
                                     !.out = sorted],
                        NoError)
  /\ UNCHANGED <<securities, security_quotes, sec, prev, ncalls, stopped>>
  /\ UNCHANGED fanVars

NextCalc ==
  \/ getSecurityDataHandler_Changes(1)
  \/ getSecurityDataHandler_Changes(2)
  \/ compareHandler_Spread
  \/ securityListHandler_Rank
  \/ Return(1)

SpecCalc == InitCalc /\ [][NextCalc]_vars

(***************************************************************************)
(* Specification of moex.GetQuotesForDate                                  *)
(***************************************************************************)
\* the day GetQuotesForDate is called for
Today == 1

\* time.Now() of the callers: a time during that day
Now == Today * TicksPerDay + 1

\* a null in a text field and in a number field of a history row
Null == "null"
NullNumber == 0 - 1

\* the list handed to GetQuotesForDate: new values of one type or of two,
\* a value that holds the quote of an earlier call, a value of no type
SnapshotLists ==
  {<<GetQuickSecurity("A", Share)>>,
   <<GetQuickSecurity("A", Share), GetQuickSecurity("B", Share)>>,
   <<GetQuickSecurity("A", Share), GetQuickSecurity("B", ETF)>>,
   <<SetQuotes(GetQuickSecurity("A", Share),
               HistoryQuotes(HistoryRow("TQBR", "A", 1), 0)),
     GetQuickSecurity("B", ETF)>>,
   <<GetQuickSecurity("A", UnknownType)>>}

\* the first page of the history of a market for a day; the page after it
\* is empty
HistoryPages(sType) ==
  IF sType = Share
  THEN {<<>>,
        <<HistoryRow("TQBR", "A", 1)>>,
        <<HistoryRow("TQBR", "A", 1), HistoryRow("TQBR", "B", 1)>>,
        <<HistoryRow("SMAL", "A", 2), HistoryRow("TQBR", "A", 1)>>,
        <<HistoryRow("TQBR", "A", 1), HistoryRow("TQBR", "A", 2)>>,
        <<HistoryRow("TQBR", "X", 1),
          [HistoryRow("TQBR", "B", 1) EXCEPT ![12] = NullNumber]>>}
  ELSE {<<>>, <<HistoryRow("TQTF", "B", 1)>>}

\* what the provider holds: a page per market for Today and for the day
\* before; it has no records of the days before these
Histories ==
  {h \in [{Share, ETF} -> [{Today - 1, Today} -> HistoryPages(Share) \cup HistoryPages(ETF)]] :
     \A t \in {Share, ETF} :
       \A d \in {Today - 1, Today} : h[t][d] \in HistoryPages(t)}

\* sTypes of GetQuotesForDate
sTypes(list) == {list[i].sType : i \in 1..Len(list)}

\* the test a record task makes before it looks the security up
RecordOfBoard(data, boardToCheck) ==
  data[1] = boardToCheck /\ data[4] # Null /\ data[12] # NullNumber

\* the security a record task sets the quote of: the position in the list,
\* 0 when the task sets none
RecordTarget(list, data, board) ==
  LET boardToCheck == IF board # "" THEN board ELSE "TQBR"
  IN IF /\ RecordOfBoard(data, boardToCheck)
        /\ \E i \in 1..Len(list) : list[i].id = ToUpper(data[4])
     THEN LastIndexOf(list, ToUpper(data[4]))
     ELSE 0

\* the list of securities, the date, the types still to request, in the
\* order the map is ranged over
GetQuotesForDate_Enter(p) ==
  /\ ~stopped
  /\ pc[p] = "idle"
  /\ \E list \in SnapshotLists, h \in Histories :
       \E order \in Perms(sTypes(list)) :
         Goto(p, [NoCall EXCEPT !.op = "GetQuotesForDate", !.args = list,
                                !.list = list, !.history = h, !.date = Now,
                                !.types = order],
              "gqd_type")
  /\ UNCHANGED <<securities, security_quotes, sec, prev, ncalls, stopped>>
  /\ UNCHANGED fanVars

\* all types are done: return nil
GetQuotesForDate_Done(p) ==
  /\ ~stopped
  /\ pc[p] = "gqd_type"
  /\ call[p].types = <<>>
  /\ Finish(p, call[p], NoError)
  /\ UNCHANGED <<securities, security_quotes, sec, prev, ncalls, stopped>>
  /\ UNCHANGED fanVars

\* the request of the first page of the next type: the type has no market,
\* the request fails, the page is empty and the call starts again for the
\* day before, or the page has records and a task starts for each. The days
\* before the first day the provider has records of are not told apart.
GetQuotesForDate_Request(p) ==
  /\ ~stopped
  /\ pc[p] = "gqd_type"
  /\ call[p].types # <<>>
  /\ LET c == call[p]
         sType == Head(c.types)
         page == IF DateOf(c.date) < Today - 1 THEN <<>>
                 ELSE c.history[sType][DateOf(c.date)]
         dayBefore == IF DateOf(c.date) < Today - 1 THEN c.date
                      ELSE c.date - TicksPerDay
     IN IF getEngineAndMarket(sType) = <<>>
        THEN Finish(p, c, "unknown security type")
        ELSE \/ Fail(p, c, "http.Get failed")
             \/ /\ page = <<>>
                /\ \E order \in Perms(sTypes(c.list)) :
                     Goto(p, [c EXCEPT !.date = dayBefore, !.types = order],
                          "gqd_type")
             \/ /\ page # <<>>
                /\ Goto(p, [c EXCEPT !.tasks =
                              [k \in 1..Len(page) |->
                                 [data |-> page[k], pc |-> "start",
                                  seen |-> <<>>]]],
                        "gqd_tasks")
  /\ UNCHANGED <<securities, security_quotes, sec, prev, ncalls, stopped>>
  /\ UNCHANGED fanVars

\* the record task k tests its record and looks the security up; for a
\* match it reads the quotes of the Security value it is going to append to
GetQuotesForDate_TaskRead(p, k) ==
  /\ ~stopped
  /\ pc[p] = "gqd_tasks"
  /\ k \in 1..Len(call[p].tasks)
  /\ call[p].tasks[k].pc = "start"
  /\ LET c == call[p]
         i == RecordTarget(c.list, c.tasks[k].data,
                           getEngineAndMarket(Head(c.types))[3])
     IN IF i = 0
        THEN Goto(p, [c EXCEPT !.tasks[k].pc = "done"], "gqd_tasks")
        ELSE Goto(p, [c EXCEPT !.tasks[k].pc = "append",
                               !.tasks[k].seen = c.list[i].quotes],
                  "gqd_tasks")
  /\ UNCHANGED <<securities, security_quotes, sec, prev, ncalls, stopped>>
  /\ UNCHANGED fanVars

\* the record task k stores the quotes it has read with its quote appended:
\* SetQuotes is called without a lock
GetQuotesForDate_TaskAppend(p, k) ==
  /\ ~stopped
  /\ pc[p] = "gqd_tasks"
  /\ k \in 1..Len(call[p].tasks)
  /\ call[p].tasks[k].pc = "append"
  /\ LET c == call[p]
         i == RecordTarget(c.list, c.tasks[k].data,
                           getEngineAndMarket(Head(c.types))[3])
     IN Goto(p, [c EXCEPT !.tasks[k].pc = "done",
                          !.list[i].quotes =
                            Append(c.tasks[k].seen,
                                   HistoryQuotes(c.tasks[k].data, c.date)),
                          !.appends = Append(@, i)],
             "gqd_tasks")
  /\ UNCHANGED <<securities, security_quotes, sec, prev, ncalls, stopped>>
  /\ UNCHANGED fanVars

\* wg.Wait returns; the next page is empty, the loop over the pages ends
GetQuotesForDate_Wait(p) ==
  /\ ~stopped
  /\ pc[p] = "gqd_tasks"
  /\ \A k \in 1..Len(call[p].tasks) : call[p].tasks[k].pc = "done"
  /\ Goto(p, [call[p] EXCEPT !.tasks = <<>>, !.types = Tail(@)], "gqd_type")
  /\ UNCHANGED <<securities, security_quotes, sec, prev, ncalls, stopped>>
  /\ UNCHANGED fanVars

NextSnap ==
  \/ GetQuotesForDate_Enter(1)
  \/ GetQuotesForDate_Done(1)
  \/ GetQuotesForDate_Request(1)
  \/ \E k \in DOMAIN call[1].tasks : GetQuotesForDate_TaskRead(1, k)
  \/ \E k \in DOMAIN call[1].tasks : GetQuotesForDate_TaskAppend(1, k)
  \/ GetQuotesForDate_Wait(1)
  \/ Return(1)

\* the seeded store, no call running
InitSnap == StoreInit /\ FanIdle

SpecSnap == InitSnap /\ [][NextSnap]_vars

\* the call and its record tasks keep running while they can
SpecSnapLive == InitSnap /\ [][NextSnap]_vars /\ WF_vars(NextSnap)

(***************************************************************************)
(* Specification of the queries: QuotesForDate, LastQuotes,                *)
(* SecurityQuotesExist                                                     *)
(***************************************************************************)
\* the series a Security value may hold, in any order: day candles, an hour
\* candle and a quote GetQuotesForDate has set
QuerySeries ==
  UNION {Perms(Q) :
           Q \in SUBSET {ParseCandle(CandleRow(IntervalDay, 0, 1), IntervalDay),
                         ParseCandle(CandleRow(IntervalDay, 2, 2), IntervalDay),
                         ParseCandle(CandleRow(IntervalHour, 1, 1), IntervalHour),
                         HistoryQuotes(HistoryRow("TQBR", "A", 2), 1)}}

\* A is registered with the candles earlier calls of UpdateSecurityQuotes
\* have persisted; the caller holds a Security value of A with a series
InitQuery ==
  /\ securities = {SecurityRow(GetSecurity("A", "", Share, RUB))}
  /\ \E ra \in CandleResponses(IntervalDay, 0, 3, MaxFetch, ConcPrices),
        rh \in CandleResponses(IntervalHour, 0, 1, 1, ConcPrices) :
       security_quotes = SeedRows("A", ra) \cup HourSeedRows("A", rh)
  /\ \E s \in QuerySeries :
       sec = [p \in Procs |-> SetQuotesList(GetQuickSecurity("A", Share), s)]
  /\ pc = [p \in Procs |-> "idle"]
  /\ call = [p \in Procs |-> NoCall]
  /\ prev = [p \in Procs |-> NoPrev]
  /\ ncalls = 0
  /\ stopped = FALSE
  /\ FanIdle

\* Security.QuotesForDate called with an interval and a date
QuotesForDate_Call(p) ==
  /\ ~stopped
  /\ pc[p] = "idle"
  /\ \E interval \in Intervals, date \in Times :
       Finish(p, [NewCall(sec[p], "QuotesForDate", date, date, interval)
                    EXCEPT !.out = <<QuotesForDate(sec[p], interval, date)>>],
              NoError)
  /\ UNCHANGED <<securities, security_quotes, sec, prev, ncalls, stopped>>
  /\ UNCHANGED fanVars

\* Security.LastQuotes called with an interval
LastQuotes_Call(p) ==
  /\ ~stopped
  /\ pc[p] = "idle"
  /\ \E interval \in Intervals :
       Finish(p, [NewCall(sec[p], "LastQuotes", 0, 0, interval)
                    EXCEPT !.out = <<LastQuotes(sec[p], interval)>>],
              NoError)
  /\ UNCHANGED <<securities, security_quotes, sec, prev, ncalls, stopped>>
  /\ UNCHANGED fanVars

\* SecurityQuotesExist called with a begin date and an interval: the answer
\* of the query, or false with the error of a query that failed
SecurityQuotesExist_Call(p) ==
  /\ ~stopped
  /\ pc[p] = "idle"
  /\ \E interval \in Intervals, date \in Times :
       LET c == NewCall(sec[p], "SecurityQuotesExist", date, date, interval)
       IN \/ Finish(p, [c EXCEPT !.queried = TRUE,
                                 !.res = SecurityQuotesExist(security_quotes,
                                                             sec[p].id, date,
                                                             interval)],
                    NoError)
          \/ Fail(p, [c EXCEPT !.queried = TRUE], "query failed")
  /\ UNCHANGED <<securities, security_quotes, sec, prev, ncalls, stopped>>
  /\ UNCHANGED fanVars

NextQuery ==
  \/ QuotesForDate_Call(1)
  \/ LastQuotes_Call(1)
  \/ SecurityQuotesExist_Call(1)
  \/ Return(1)

SpecQuery == InitQuery /\ [][NextQuery]_vars

(***************************************************************************)
(* Properties of UpdateSecurityQuotes                                      *)
(***************************************************************************)
\* caller p has called the operation op, which has returned
ReturnedOp(p, op) == pc[p] = "done" /\ call[p].op = op

\* caller p is in UpdateSecurityQuotes, which has returned or is about to
Returned(p) == pc[p] = "done" /\ call[p].op = "UpdateSecurityQuotes"

\* the rows of the quotes fetched by the running call of p
FetchedRows(p) ==
  Range(QuoteRows(sec[p].id, call[p].interval, call[p].fetched))

\* the persisted quotes in the window of the running call of p
WindowRows(p, tbl) ==
  {r \in tbl : InWindow(r, sec[p].id, call[p].dateFrom, call[p].dateTill,
                        call[p].interval)}

\* the table securities has a row for the id
Registered(tbl, id) == \E r \in tbl : r.id = id

\* C1: when UpdateSecurityQuotes on a registered security fetched a
\* non-empty series and returns nil, the persisted quotes of the window are
\* fetched quotes (the quotes persisted there before are gone) and every
\* fetched quote is persisted
C1_ReplacesWindow ==
  \A p \in Procs :
    (Returned(p) /\ call[p].err = NoError /\ call[p].fetched # <<>>) =>
      /\ WindowRows(p, security_quotes) \subseteq FetchedRows(p)
      /\ FetchedRows(p) \subseteq security_quotes

\* C3: a repeated UpdateSecurityQuotes with the same window, interval and
\* upstream data, after a first call that returned nil, returns nil and
\* leaves the persisted set as the first call left it, on the same Security
\* value as on a new one (no failure of the store or provider injected)
C3_Idempotent ==
  \A p \in Procs :
    (Returned(p) /\ prev[p].op = "UpdateSecurityQuotes"
       /\ prev[p].err = NoError /\ ~call[p].fault) =>
      /\ call[p].err = NoError
      /\ security_quotes = prev[p].quotesAfter

\* C7: when the provider returns an empty series UpdateSecurityQuotes issues
\* neither the delete nor the insert, returns nil and leaves the store as it
\* was
C7_EmptyFetchNoChange ==
  \A p \in Procs :
    (call[p].op = "UpdateSecurityQuotes" /\ call[p].empty) =>
      /\ pc[p] = "done"
      /\ ~call[p].deleted
      /\ call[p].err = NoError
      /\ security_quotes = call[p].quotesBefore
      /\ securities = call[p].securitiesBefore

\* C8: when the delete of UpdateSecurityQuotes has taken effect and the
\* insert fails, or the process stops between the two, the window is left
\* empty (the quotes deleted are not restored) and the call, if it returns,
\* returns the error of the insert
C8_FailedInsertLeavesWindowEmpty ==
  \A p \in Procs :
    (call[p].op = "UpdateSecurityQuotes" /\ call[p].deleted
       /\ (call[p].insertFailed \/ (stopped /\ pc[p] = "usq_insert"))) =>
      /\ WindowRows(p, security_quotes) = {}
      /\ pc[p] = "done" => call[p].err \in InsertErrors

\* C9: UpdateSecurityQuotes on a security that is not registered returns an
\* error without a request to the provider and leaves the store and the
\* series of the Security value as they were
C9_UnknownSecurity ==
  \A p \in Procs :
    (Returned(p) /\ ~Registered(call[p].securitiesBefore, sec[p].id)) =>
      /\ call[p].err # NoError
      /\ ~call[p].contacted
      /\ security_quotes = call[p].quotesBefore
      /\ securities = call[p].securitiesBefore
      /\ sec[p].quotes = call[p].secBefore

\* C10: UpdateSecurityQuotes changes the window only: the persisted quotes
\* of other securities, of other intervals and outside the window are the
\* same after the call as before, whether it succeeds or fails
C10_OnlyWindowChanges ==
  \A p \in Procs :
    Returned(p) =>
      security_quotes \ WindowRows(p, security_quotes)
        = call[p].quotesBefore \ WindowRows(p, call[p].quotesBefore)

\* a call that deleted quotes persisted in its window and whose insert failed
C8_Witness ==
  \E p \in Procs :
    /\ Returned(p)
    /\ call[p].deleted
    /\ call[p].insertFailed
    /\ WindowRows(p, call[p].quotesBefore) # {}
    /\ call[p].err \in InsertErrors

\* a call on a security that is not registered, made while another security
\* is registered and has persisted quotes
C9_Witness ==
  \E p \in Procs :
    /\ Returned(p)
    /\ ~Registered(call[p].securitiesBefore, sec[p].id)
    /\ call[p].securitiesBefore # {}
    /\ security_quotes # {}

\* C6: once a fetched batch has been merged into a Security value that held
\* quotes of an earlier batch, the series of every interval is sorted
\* ascending by begin and has no two quotes with the same begin
C6_MergedSeriesSortedUnique ==
  \A p \in Procs :
    (call[p].op = "UpdateSecurityQuotes" /\ call[p].secBefore # <<>>
       /\ call[p].fetched # <<>>) =>
      \A interval \in Intervals :
        /\ IsSortedByBegin(QuotesOfInterval(sec[p], interval))
        /\ NoDuplicateBegin(QuotesOfInterval(sec[p], interval))

(***************************************************************************)
(* Properties of UpdateAllSecuritiesLastQuotes                             *)
(***************************************************************************)
\* caller p is in UpdateAllSecuritiesLastQuotes, which has returned or is
\* about to
ReturnedLast(p) ==
  pc[p] = "done" /\ call[p].op = "UpdateAllSecuritiesLastQuotes"

\* the persisted quotes whose key a Security value of the fetched list asks
\* to store with other values
Contested(p, tbl) ==
  {r \in tbl :
     \E k \in 1..Len(call[p].list) :
       LET row == QuoteRow(call[p].list[k].id, IntervalDay,
                           LastQuotes(call[p].list[k], IntervalDay))
       IN QuoteKey(row) = QuoteKey(r) /\ row # r}

\* C11: UpdateAllSecuritiesLastQuotes only adds: the persisted quotes after
\* the call include the quotes persisted before it, and a key persisted
\* before the call keeps the values stored under it
C11_AdditiveFirstWriteWins ==
  \A p \in Procs :
    ReturnedLast(p) =>
      /\ call[p].quotesBefore \subseteq security_quotes
      /\ \A r \in call[p].quotesBefore : \A x \in security_quotes :
           QuoteKey(x) = QuoteKey(r) => x = r

\* a call that returned nil after the provider answered with other values
\* for a key that was persisted
C11_Witness ==
  \E p \in Procs :
    /\ ReturnedLast(p)
    /\ call[p].err = NoError
    /\ call[p].matched # {}
    /\ Contested(p, call[p].quotesBefore) # {}

\* C12: UpdateAllSecuritiesLastQuotes inserts rows only for the securities
\* the provider response populated in this call
C12_InsertsOnlyFetched ==
  \A p \in Procs :
    ReturnedLast(p) =>
      \A r \in security_quotes \ call[p].quotesBefore :
        r.security \in call[p].matched

(***************************************************************************)
(* Properties of GetSecurityQuotes                                         *)
(***************************************************************************)
\* GetSecurityQuotes has returned nil to the UpdateSecurityQuotes of caller p
Fetched(p) == call[p].op = "UpdateSecurityQuotes" /\ call[p].parsed

\* C23: malformed upstream data met by GetSecurityQuotes, a candle row whose
\* date field does not parse or whose field at an expected position has
\* another type, is reported to the caller as an error return and never
\* ends the process: the other callers keep running.
C23_MalformedDataIsAnErrorReturn ==
  \A p \in Procs :
    call[p].malformed # "" =>
      /\ ~stopped
      /\ pc[p] = "done"
      /\ call[p].err # NoError

\* C30: GetSecurityQuotes on a freshly constructed Security value leaves a
\* series that holds exactly one quote per row of the provider payload and
\* is sorted ascending by begin, in whatever order the parse tasks complete.
C30_FetchedSeriesCompleteAndSorted ==
  \A p \in Procs :
    (Fetched(p) /\ call[p].secBefore = <<>>) =>
      LET q == sec[p].quotes
      IN /\ Len(q) = Cardinality(call[p].payload)
         /\ {ParseCandle(row, call[p].interval) : row \in call[p].payload}
              = Range(q)
         /\ IsSortedByBegin(q)

\* GetSecurityQuotes has filled a fresh Security value from a payload of two
\* rows or more
C30_Witness ==
  \E p \in Procs :
    /\ Fetched(p)
    /\ call[p].secBefore = <<>>
    /\ Cardinality(call[p].payload) >= 2

(***************************************************************************)
(* Properties of GetSecurityData                                           *)
(***************************************************************************)
\* the persisted quotes of the security with the given id
QuotesOf(tbl, id) == {r \in tbl : r.security = id}

\* C19: after GetSecurityData returns nil on a freshly constructed Security
\* value, the series of the value holds exactly one quote per persisted row
\* of that security and is sorted ascending by begin, in whatever order the
\* row tasks have appended their quotes.
C19_LoadedSeriesCompleteAndSorted ==
  \A p \in Procs :
    (/\ ReturnedOp(p, "GetSecurityData")
     /\ call[p].err = NoError
     /\ call[p].secBefore = <<>>) =>
      LET q == sec[p].quotes
          rows == QuotesOf(security_quotes, sec[p].id)
      IN /\ Len(q) = Cardinality(rows)
         /\ {QuoteRow(sec[p].id, q[i].Interval, q[i]) : i \in 1..Len(q)} = rows
         /\ IsSortedByBegin(q)

\* GetSecurityData has loaded a series of two quotes or more
C19_Witness ==
  \E p \in Procs :
    /\ ReturnedOp(p, "GetSecurityData")
    /\ call[p].err = NoError
    /\ call[p].secBefore = <<>>
    /\ Len(sec[p].quotes) >= 2

(***************************************************************************)
(* Properties of AddSecurity and DeleteSecurity                            *)
(***************************************************************************)
\* what SecurityExists returns for the key of the Security value s
Exists(tbl, s) == SecurityExists(tbl, s.id, s.sType).res

\* a key becomes persisted in this step
Created(id, sType) ==
  /\ ~SecurityExists(securities, id, sType).res
  /\ SecurityExists(securities', id, sType).res

InvalidKey(s) == s.id = "" \/ s.sType = "" \/ s.sType = UnknownType

\* C13: SecurityExists called with an empty id, or with an empty or unknown
\* type, returns an error, never (false, nil), and makes no store query.
C13_InvalidKeyIsAnError ==
  \A p \in Procs :
    ReturnedOp(p, "SecurityExists") /\ InvalidKey(sec[p]) =>
      /\ call[p].err # NoError
      /\ ~call[p].queried

\* SecurityExists has refused a key with an id but of unknown type
C13_Witness ==
  \E p \in Procs :
    /\ ReturnedOp(p, "SecurityExists")
    /\ sec[p].id # ""
    /\ sec[p].sType = UnknownType
    /\ call[p].err = "security has no type or type is unknown"

\* C15: AddSecurity on a security whose id is already persisted returns nil
\* and leaves the table securities unchanged, whatever type the Security
\* value of the caller carries; on a security whose id is not persisted it
\* inserts one row, with RUB as currency when the caller's is unknown.
C15_CreateIsIdempotentPerId ==
  \A p \in Procs :
    (/\ ReturnedOp(p, "AddSecurity")
     /\ ~call[p].fault
     /\ ~InvalidKey(sec[p])) =>
      /\ call[p].err = NoError
      /\ IF Registered(call[p].securitiesBefore, sec[p].id)
         THEN securities = call[p].securitiesBefore
         ELSE securities = call[p].securitiesBefore \cup
                {[id |-> sec[p].id, name |-> sec[p].name, type |-> sec[p].sType,
                  currency |-> IF sec[p].currency = UnknownCurrency
                               THEN RUB ELSE sec[p].currency]}

\* what AddSecurity returns and leaves in the table securities, the queries
\* themselves not failing
AddSecurityResult(tbl, s) ==
  LET ex == SecurityExists(tbl, s.id, s.sType)
  IN IF ex.err # NoError THEN [err |-> ex.err, tbl |-> tbl]
     ELSE IF ex.res THEN [err |-> NoError, tbl |-> tbl]
     ELSE IF SecuritiesPrimaryKeyOK(tbl, <<SecurityRow(s)>>)
          THEN [err |-> NoError, tbl |-> tbl \cup {SecurityRow(s)}]
          ELSE [err |-> "duplicate entry", tbl |-> tbl]

\* AddSecurity applied to the entries of list in turn, from entry i on, up
\* to the first error
RECURSIVE AddSecurityEach(_, _, _)
AddSecurityEach(tbl, list, i) ==
  IF i > Len(list) THEN [err |-> NoError, tbl |-> tbl]
  ELSE LET r == AddSecurityResult(tbl, list[i])
       IN IF r.err # NoError THEN r
          ELSE AddSecurityEach(r.tbl, list, i + 1)

\* C16: AddSecurities on a list of entries with valid keys returns nil and
\* leaves the store as AddSecurity applied to each entry in turn leaves it:
\* persisted entries are skipped, every other entry is inserted once, also
\* when the list names one id that is not persisted more than once. Stated
\* for the lists on which every AddSecurity in turn returns nil.
C16_BatchEqualsCreateEach ==
  \A p \in Procs :
    (/\ ReturnedOp(p, "AddSecurities")
     /\ ~call[p].fault
     /\ \A k \in 1..Len(call[p].list) : ~InvalidKey(call[p].list[k])
     /\ AddSecurityEach(call[p].securitiesBefore, call[p].list, 1).err = NoError) =>
      /\ call[p].err = NoError
      /\ securities =
           AddSecurityEach(call[p].securitiesBefore, call[p].list, 1).tbl

\* C18: after any sequence of AddSecurity and AddSecurities calls with
\* Security values built by GetSecurity / GetQuickSecurity, every persisted
\* row of securities has a type in {share, etf, bond, currency} and a
\* currency in {RUB, USD, EUR, CNY}: no row of unknown type or unknown
\* currency is persisted.
C18_PersistedTypeAndCurrencyKnown ==
  \A r \in securities :
    /\ r.type \in {Share, ETF, Bond, Currency}
    /\ r.currency \in {RUB, USD, EUR, CNY}

\* a Security value of unknown currency has been persisted, by AddSecurity
\* or by AddSecurities
C18_Witness ==
  \E p \in Procs :
    /\ call[p].err = NoError
    /\ \/ /\ ReturnedOp(p, "AddSecurity")
          /\ sec[p].currency = UnknownCurrency
          /\ \E r \in securities \ call[p].securitiesBefore : r.id = sec[p].id
       \/ /\ ReturnedOp(p, "AddSecurities")
          /\ \E k \in 1..Len(call[p].list) :
               /\ call[p].list[k].currency = UnknownCurrency
               /\ \E r \in securities \ call[p].securitiesBefore :
                    r.id = call[p].list[k].id

(***************************************************************************)
(* Properties of GetAllSecuritiesData                                      *)
(***************************************************************************)
\* the persisted row of id passes the filters f, compared without regard to
\* the case of the filter strings
PassesFilters(tbl, id, f) ==
  \E r \in tbl :
    /\ r.id = id
    /\ f[1] = "" \/ r.type = GetSecurityTypeFromString(f[1])
    /\ f[2] = "" \/ r.currency = GetSecurityCurrencyFromString(f[2])

\* the quote q of the Security value e is a persisted quote of e with the
\* latest end
IsLatestQuote(tbl, e, q) ==
  /\ QuoteRow(e.id, q.Interval, q) \in QuotesOf(tbl, e.id)
  /\ \A o \in QuotesOf(tbl, e.id) : o.end <= q.End

\* C20 as stated: GetAllSecuritiesData with valid filters returns only
\* securities whose persisted type and currency equal the filters, and each
\* returned security carries exactly one quote, its persisted quote with
\* the latest end.
C20_EachCarriesExactlyOneQuote ==
  \A p \in Procs :
    (ReturnedOp(p, "GetAllSecuritiesData") /\ call[p].err = NoError) =>
      \A k \in 1..Len(call[p].list) :
        LET e == call[p].list[k]
        IN /\ PassesFilters(securities, e.id, call[p].filter)
           /\ Len(e.quotes) = 1
           /\ IsLatestQuote(security_quotes, e, e.quotes[1])

\* C20: GetAllSecuritiesData with valid filters returns only securities
\* whose persisted type and currency equal the filters; a returned security
\* with persisted quotes carries exactly one quote, a persisted quote of it
\* with the latest end, and a returned security without persisted quotes
\* carries none.
C20_EachCarriesItsLatestQuoteIfAny ==
  \A p \in Procs :
    (ReturnedOp(p, "GetAllSecuritiesData") /\ call[p].err = NoError) =>
      \A k \in 1..Len(call[p].list) :
        LET e == call[p].list[k]
        IN /\ PassesFilters(securities, e.id, call[p].filter)
           /\ IF QuotesOf(security_quotes, e.id) = {}
              THEN e.quotes = <<>>
              ELSE /\ Len(e.quotes) = 1
                   /\ IsLatestQuote(security_quotes, e, e.quotes[1])

\* a filtered call has left a persisted security out and has returned one
\* with the later of its two persisted quotes
C20_Witness ==
  \E p \in Procs :
    /\ ReturnedOp(p, "GetAllSecuritiesData")
    /\ call[p].err = NoError
    /\ call[p].filter # <<"", "">>
    /\ \E r \in securities :
         \A k \in 1..Len(call[p].list) : call[p].list[k].id # r.id
    /\ \E k \in 1..Len(call[p].list) :
         /\ Cardinality(QuotesOf(security_quotes, call[p].list[k].id)) >= 2
         /\ Len(call[p].list[k].quotes) = 1

\* C21: the list GetAllSecuritiesData returns holds every persisted security
\* that passes the filters exactly once, also when several of its quotes
\* share the greatest end (quotes of different intervals), and is sorted
\* ascending by id, in whatever order the row tasks complete.
C21_EverySecurityOnceSortedById ==
  \A p \in Procs :
    (ReturnedOp(p, "GetAllSecuritiesData") /\ call[p].err = NoError) =>
      LET list == call[p].list
      IN /\ \A r \in securities :
              PassesFilters(securities, r.id, call[p].filter) =>
                Cardinality({k \in 1..Len(list) : list[k].id = r.id}) = 1
         /\ \A k \in 1..(Len(list) - 1) :
              IdRank(list[k].id) <= IdRank(list[k + 1].id)

(***************************************************************************)
(* Properties of the store under concurrent callers                        *)
(***************************************************************************)
\* C2: no two persisted quotes share the same (security, interval, begin)
C2_UniqueKey ==
  \A r1, r2 \in security_quotes : QuoteKey(r1) = QuoteKey(r2) => r1 = r2

\* two callers whose operations interleaved: the insert of one was refused as
\* a duplicate of a row the other one inserted meanwhile
C2_Witness ==
  \E p, q \in Procs :
    /\ p # q
    /\ call[p].op = "UpdateSecurityQuotes"
    /\ pc[p] = "done"
    /\ call[p].deleted
    /\ call[p].err = "duplicate entry"
    /\ call[q].op = "UpdateAllSecuritiesLastQuotes"
    /\ pc[q] = "done"
    /\ call[q].err = NoError
    /\ call[q].args # <<>>

\* C17: in every reachable state of the store, also between the two
\* statements of DeleteSecurity and when DeleteSecurity interleaves with an
\* UpdateSecurityQuotes or an UpdateAllSecuritiesLastQuotes on the same
\* security, every persisted quote references a persisted security;
\* DeleteSecurity removes the quotes before the row of the security, and for
\* a security that is absent it returns nil without a statement.
C17_QuotesReferenceSecurities ==
  /\ \A q \in security_quotes : Registered(securities, q.security)
  /\ \A p \in Procs :
       /\ call[p].op = "DeleteSecurity" /\ pc[p] = "del_security" =>
            call[p].deleted
       /\ (/\ ReturnedOp(p, "DeleteSecurity")
           /\ ~call[p].fault
           /\ ~Exists(call[p].securitiesBefore, sec[p])) =>
            /\ call[p].err = NoError
            /\ ~call[p].deleted

\* between the two statements of a DeleteSecurity another caller has
\* inserted quotes of the security, and the second statement was refused
C17_Witness ==
  \E p, q \in Procs :
    /\ p # q
    /\ ReturnedOp(p, "DeleteSecurity")
    /\ call[p].deleted
    /\ call[p].err = "foreign key constraint fails"
    /\ call[q].op \in {"UpdateSecurityQuotes", "UpdateAllSecuritiesLastQuotes"}
    /\ pc[q] = "done"
    /\ call[q].err = NoError
    /\ QuotesOf(security_quotes, sec[p].id) # {}

(***************************************************************************)
(* Properties of GetSecuritiesData                                         *)
(***************************************************************************)
\* the tasks of the fan-out whose operation returned an error
Failed == {i \in 1..Len(items) : taskErr[i] # NoError}

\* the number of lines of the joined error that read msg
LinesOf(lines, msg) == Cardinality({k \in 1..Len(lines) : lines[k] = msg})

\* C4: GetSecuritiesData runs the operation once for every item, never more,
\* and the error it returns has one line per failed item: every failure
\* message is there as often as items failed with it, and nothing else
C4_EveryItemOnceEveryMessageOnce ==
  /\ \A i \in Tasks : invoked[i] <= 1
  /\ mainPc = "returned" =>
       /\ \A i \in 1..Len(items) : invoked[i] = 1
       /\ Len(result) = Cardinality(Failed)
       /\ \A i \in Failed :
            LinesOf(result, taskErr[i])
              = Cardinality({j \in Failed : taskErr[j] = taskErr[i]})

\* a fan-out over at least three items that all failed, with different
\* messages among them
C4_Witness ==
  /\ mainPc = "returned"
  /\ Len(items) >= 3
  /\ Cardinality(Failed) = Len(items)
  /\ \E i, j \in Failed : taskErr[i] # taskErr[j]

\* C5: GetSecuritiesData returns only when every task it started has
\* finished, and it returns nil exactly when no task returned an error
C5_ReturnsAfterAllTasks ==
  mainPc = "returned" =>
    /\ spawned = Len(items)
    /\ \A i \in 1..Len(items) : taskPc[i] = "done"
    /\ (result = <<>>) <=> (Failed = {})

\* a fan-out that returned an error although its first task succeeded, and
\* one more task failed after it
C5_Witness ==
  /\ mainPc = "returned"
  /\ Len(items) >= 2
  /\ taskErr[1] = NoError
  /\ Failed # {}
  /\ result # <<>>

(***************************************************************************)
(* Properties of getSecurityDataHandler                                    *)
(***************************************************************************)
\* the quotes of the security the handler was asked for that end in the
\* window, in the order of the series
Retained ==
  SelectSeq(QuotesOfInterval(sec[call[1].i], call[1].interval),
            LAMBDA q : call[1].dateFrom <= q.End /\ q.End <= call[1].dateTill)

\* the closes of the retained quotes
RetainedCloses == [k \in 1..Len(Retained) |-> Retained[k].Close]

\* C24: getSecurityDataHandler answers with one entry per quote whose end
\* lies in [dateFrom, dateTill], in the order of the series, each with the
\* end and the close of its quote; the first entry has the changes 0 and 0;
\* a later entry has the change (close - prevClose) / prevClose * 100 over
\* the close of the entry before it and the total change
\* (close - baseline) / baseline * 100 over the close of the first entry
\* (where these closes are not 0); the closes 100, 110, 99 give the changes
\* 0, 10, -10 and the total changes 0, 10, -1.
C24_ChangesOverTheWindow ==
  ReturnedOp(1, "getSecurityDataHandler") =>
    LET out == call[1].out
        c == RetainedCloses
    IN /\ call[1].err = NoError
       /\ Len(out) = Len(Retained)
       /\ \A k \in 1..Len(out) :
            /\ out[k].End = FormatTime(Retained[k].End)
            /\ out[k].Close = <<c[k] * Micro>>
            /\ k = 1 => out[k].Change = <<0>> /\ out[k].TotalChange = <<0>>
            /\ (k > 1 /\ c[k - 1] # 0) =>
                 out[k].Change =
                   <<RoundHalfEven((c[k] - c[k - 1]) * 10000, c[k - 1])>>
            /\ (k > 1 /\ c[1] # 0) =>
                 out[k].TotalChange =
                   <<RoundHalfEven((c[k] - c[1]) * 10000, c[1])>>
       /\ c = <<100, 110, 99>> =>
            /\ [k \in 1..3 |-> out[k].Change] = <<<<0>>, <<1000>>, <<0 - 1000>>>>
            /\ [k \in 1..3 |-> out[k].TotalChange] = <<<<0>>, <<1000>>, <<0 - 100>>>>

\* the handler has answered for a window that leaves a quote of the series
\* out and retains two quotes with closes that differ
C24_Witness ==
  /\ ReturnedOp(1, "getSecurityDataHandler")
  /\ Len(Retained) = 2
  /\ Len(sec[call[1].i].quotes) = 3
  /\ RetainedCloses = <<110, 99>>

LegRetained(p) ==
  SelectSeq(QuotesOfInterval(sec[p], call[1].interval),
            LAMBDA q : call[1].dateFrom <= q.End /\ q.End <= call[1].dateTill)

\* the calendar dates on which the leg p supplied a close
LegDates(p) == {TruncDay(LegRetained(p)[k].End) : k \in 1..Len(LegRetained(p))}

\* the dates on which both legs supplied a close
CommonDates == LegDates(1) \cap LegDates(2)

\* the position in the leg p of its last quote of the date d
LastOn(p, d) ==
  CHOOSE k \in 1..Len(LegRetained(p)) :
    /\ TruncDay(LegRetained(p)[k].End) = d
    /\ \A j \in (k + 1)..Len(LegRetained(p)) :
         TruncDay(LegRetained(p)[j].End) # d

\* the close the leg p supplied for the date d
CloseOn(p, d) == LegRetained(p)[LastOn(p, d)].Close

\* the spread of the entry of the date d is set
SpreadSet(d) ==
  call[1].out[d].DayProfit # <<>> /\ call[1].out[d].TotalProfit # <<>>

\* C27: the result of compareHandler has an entry for every calendar date
\* (the end truncated to the day) on which at least one leg supplied a
\* close and for no other date; the spread is set on exactly the dates on
\* which both legs supplied a close, and unset on a date of one leg only.
C27_SpreadOnCommonDatesOnly ==
  ReturnedOp(1, "compareHandler") =>
    /\ call[1].err = NoError
    /\ DOMAIN call[1].out = LegDates(1) \cup LegDates(2)
    /\ \A d \in DOMAIN call[1].out :
         /\ SpreadSet(d) <=> d \in CommonDates
         /\ d \notin CommonDates =>
              /\ call[1].out[d].DayProfit = <<>>
              /\ call[1].out[d].TotalProfit = <<>>
         /\ d \in LegDates(1) =>
              call[1].out[d].Price1 = <<CloseOn(1, d) * Micro>>
         /\ d \in LegDates(2) =>
              call[1].out[d].Price2 = <<CloseOn(2, d) * Micro>>
         /\ d \notin LegDates(1) => call[1].out[d].Price1 = <<>>
         /\ d \notin LegDates(2) => call[1].out[d].Price2 = <<>>

\* the handler has answered for legs with a common date, a date of the
\* first leg only and a date of the second leg only
C27_Witness ==
  /\ ReturnedOp(1, "compareHandler")
  /\ CommonDates # {}
  /\ LegDates(1) \ LegDates(2) # {}
  /\ LegDates(2) \ LegDates(1) # {}

\* the change of the leg p at its quote k over the close of its quote
\* before, every quote of the leg counted
OwnDayChange(p, k) ==
  LET c == [j \in 1..Len(LegRetained(p)) |-> LegRetained(p)[j].Close]
  IN IF k = 1 \/ c[k - 1] = 0 THEN Zero ELSE PercentChange(c[k], c[k - 1])

\* the total change of the leg p at its quote k over its first close that
\* is not 0, every quote of the leg counted
OwnTotalChange(p, k) ==
  LET c == [j \in 1..Len(LegRetained(p)) |-> LegRetained(p)[j].Close]
      J == {j \in 1..(k - 1) : c[j] # 0}
      b == CHOOSE j \in J : \A i \in J : j <= i
  IN IF J = {} THEN Zero ELSE PercentChange(c[k], c[b])

\* C28 as stated: on a date with both closes the day spread is the change
\* of the first leg minus the change of the second and the total spread the
\* total change of the first minus that of the second, the changes of a leg
\* being those over its own quotes: a date the other leg misses does not
\* alter the previous price or the baseline of the leg.
C28_SpreadOfIndependentChanges ==
  ReturnedOp(1, "compareHandler") =>
    \A d \in CommonDates :
      /\ call[1].out[d].DayProfit =
           Sprintf2(FracSub(OwnDayChange(1, LastOn(1, d)),
                            OwnDayChange(2, LastOn(2, d))))
      /\ call[1].out[d].TotalProfit =
           Sprintf2(FracSub(OwnTotalChange(1, LastOn(1, d)),
                            OwnTotalChange(2, LastOn(2, d))))

\* the change of the leg p on the common date d over its close on the
\* common date before
CommonDayChange(p, d) ==
  LET B == {e \in CommonDates : e < d}
      b == CHOOSE e \in B : \A x \in B : x <= e
  IN IF B = {} THEN Zero
     ELSE IF CloseOn(p, b) <= 0 THEN Zero
     ELSE PercentChange(CloseOn(p, d), CloseOn(p, b))

\* the total change of the leg p on the common date d over its close on
\* the first common date on which that close is positive
CommonTotalChange(p, d) ==
  LET B == {e \in CommonDates : e < d /\ CloseOn(p, e) > 0}
      b == CHOOSE e \in B : \A x \in B : e <= x
  IN IF B = {} THEN Zero ELSE PercentChange(CloseOn(p, d), CloseOn(p, b))

\* C28: on a date with both closes the day spread is the change of the
\* first leg minus the change of the second and the total spread the total
\* change of the first minus that of the second, where the changes of a leg
\* are taken over the dates with both closes only: the previous price is
\* the close of the leg on the common date before, the baseline its close
\* on the first common date with a positive close.
C28_SpreadOfChangesOverCommonDates ==
  ReturnedOp(1, "compareHandler") =>
    \A d \in CommonDates :
      /\ call[1].out[d].DayProfit =
           Sprintf2(FracSub(CommonDayChange(1, d), CommonDayChange(2, d)))
      /\ call[1].out[d].TotalProfit =
           Sprintf2(FracSub(CommonTotalChange(1, d), CommonTotalChange(2, d)))

\* between two common dates lies a date of the first leg only, and the
\* close of the first leg moves on each of the three dates
C28_Witness ==
  /\ ReturnedOp(1, "compareHandler")
  /\ \E d1, d2, d3 \in LegDates(1) :
       /\ d1 < d2 /\ d2 < d3
       /\ d1 \in CommonDates /\ d3 \in CommonDates /\ d2 \notin LegDates(2)
       /\ CloseOn(1, d1) > 0
       /\ CloseOn(1, d2) # CloseOn(1, d1)
       /\ CloseOn(1, d3) # CloseOn(1, d2)
       /\ call[1].out[d3].DayProfit # <<0>>

(***************************************************************************)
(* Properties of securityListHandler                                       *)
(***************************************************************************)
\* C26: every entry of the ranking has the change
\* round((close - open) / open * 10000) / 100 when its open is positive and
\* 0 otherwise; there is one entry per task that appended; the entries are
\* sorted ascending by the change, entries with the same change ascending
\* by id, in whatever order the tasks appended; A (open 10, close 12) and
\* B (open 50, close 45) have the changes 20 and -10 and come out as B, A.
C26_RankedByChangeThenId ==
  ReturnedOp(1, "securityListHandler") =>
    LET out == call[1].out
    IN /\ {out[k].id : k \in 1..Len(out)} = {sec[p].id : p \in call[1].matched}
       /\ Len(out) = Cardinality(call[1].matched)
       /\ \A k \in 1..Len(out) :
            out[k].change =
              IF out[k].priceBegin > 0
              THEN Frac(Round((out[k].priceEnd - out[k].priceBegin) * 10000,
                              out[k].priceBegin), 100)
              ELSE Zero
       /\ \A i, j \in 1..Len(out) :
            i < j =>
              \/ FracLess(out[i].change, out[j].change)
              \/ /\ out[i].change = out[j].change
                 /\ IdRank(out[i].id) < IdRank(out[j].id)
       /\ ({[id |-> out[k].id, o |-> out[k].priceBegin, c |-> out[k].priceEnd] :
              k \in 1..Len(out)}
             = {[id |-> "A", o |-> 10, c |-> 12], [id |-> "B", o |-> 50, c |-> 45]})
            => /\ out[1].id = "B" /\ out[1].change = Frac(0 - 10, 1)
               /\ out[2].id = "A" /\ out[2].change = Frac(20, 1)

\* both tasks have appended and their changes are equal, one of them from
\* a positive open
C26_Witness ==
  /\ ReturnedOp(1, "securityListHandler")
  /\ Len(call[1].out) = 2
  /\ call[1].out[1].change = call[1].out[2].change
  /\ call[1].out[2].priceBegin > 0

(***************************************************************************)
(* Properties of GetQuotesForDate                                          *)
(***************************************************************************)
\* the quotes the Security value at position i of the list has gained in
\* the call
Gained(i) ==
  SubSeq(call[1].list[i].quotes, Len(call[1].args[i].quotes) + 1,
         Len(call[1].list[i].quotes))

\* the records of the day d, as type and position in the page, from which a
\* task sets the quote of the security at position i
MatchingRecords(i, d) ==
  {tk \in sTypes(call[1].list) \X {1, 2} :
     /\ tk[2] <= Len(call[1].history[tk[1]][d])
     /\ RecordTarget(call[1].list, call[1].history[tk[1]][d][tk[2]],
                     getEngineAndMarket(tk[1])[3]) = i}

\* the provider has a record of the day d for the security at position i
MatchedOn(i, d) == MatchingRecords(i, d) # {}

\* the provider holds at most one matching record per security and day
NoRecordTwice ==
  \A i \in 1..Len(call[1].list) : \A d \in {Today - 1, Today} :
    Cardinality(MatchingRecords(i, d)) <= 1

\* C22: when GetQuotesForDate returns nil (the provider holding every
\* record once), there is one day D, the day asked for or a day before it,
\* such that every security with a matching record in the pages of D has
\* gained exactly one quote and every other security none, and every
\* gained quote has the interval day, the begin D and the end D + 1 day.
C22_OneQuoteOfOneDay ==
  (ReturnedOp(1, "GetQuotesForDate") /\ call[1].err = NoError /\ NoRecordTwice) =>
    \E D \in {Today - 1, Today} :
      \A i \in 1..Len(call[1].list) :
        /\ Len(Gained(i)) = IF MatchedOn(i, D) THEN 1 ELSE 0
        /\ \A k \in 1..Len(Gained(i)) :
             /\ Gained(i)[k].Interval = IntervalDay
             /\ Gained(i)[k].Begin = D * TicksPerDay
             /\ Gained(i)[k].End = (D + 1) * TicksPerDay

\* C31: GetQuotesForDate always terminates: whatever the provider answers,
\* a call that has started returns after finitely many requests, the call
\* for the day before being made finitely many times only, also when the
\* provider answers every first page with no records.
C31_AlwaysReturns == (pc[1] = "gqd_type") ~> (pc[1] = "done")

\* C29: after the join of the record tasks of GetQuotesForDate every
\* Security value holds one more quote per task that appended to it, no
\* append is lost, also when two tasks append to the same Security value.
C29_NoAppendIsLost ==
  ReturnedOp(1, "GetQuotesForDate") =>
    \A i \in 1..Len(call[1].list) :
      Len(Gained(i)) =
        Cardinality({k \in 1..Len(call[1].appends) : call[1].appends[k] = i})

(***************************************************************************)
(* Properties of the queries                                               *)
(***************************************************************************)
\* C32: QuotesForDate returns a quote of the interval whose end is not after
\* the date and is the greatest such end in the series, and the zero quote
\* when the series has no such quote; LastQuotes returns a quote of the
\* interval with the greatest end in the series, and the zero quote when the
\* series has none of the interval; in whatever order the series is.
C32_LatestQuoteNotAfterDate ==
  /\ ReturnedOp(1, "QuotesForDate") =>
       LET C == {q \in Range(sec[1].quotes) :
                   q.Interval = call[1].interval /\ q.End <= call[1].dateFrom}
       IN IF C = {} THEN call[1].out[1] = ZeroQuotes
          ELSE /\ call[1].out[1] \in C
               /\ \A q \in C : q.End <= call[1].out[1].End
  /\ ReturnedOp(1, "LastQuotes") =>
       LET C == {q \in Range(sec[1].quotes) : q.Interval = call[1].interval}
       IN IF C = {} THEN call[1].out[1] = ZeroQuotes
          ELSE /\ call[1].out[1] \in C
               /\ \A q \in C : q.End <= call[1].out[1].End

\* QuotesForDate has answered for a series that is not in the order of the
\* ends: the quote it returns is followed in the series by a quote of the
\* interval with an earlier end, and a quote of the interval ends after the
\* date
C32_Witness ==
  /\ ReturnedOp(1, "QuotesForDate")
  /\ \E i, j, k \in 1..Len(sec[1].quotes) :
       /\ i < j
       /\ sec[1].quotes[i] = call[1].out[1]
       /\ sec[1].quotes[j].Interval = call[1].interval
       /\ sec[1].quotes[j].End < sec[1].quotes[i].End
       /\ sec[1].quotes[k].Interval = call[1].interval
       /\ sec[1].quotes[k].End > call[1].dateFrom

\* C33: SecurityQuotesExist returns true exactly when security_quotes has a
\* row with the id of the security, the begin and the interval asked for,
\* and false otherwise; the store is as it was before the call.
C33_ExistsIffPersisted ==
  ReturnedOp(1, "SecurityQuotesExist") =>
    /\ call[1].err = NoError =>
         (call[1].res <=>
            \E r \in security_quotes :
              /\ r.security = sec[1].id
              /\ r.begin = call[1].dateFrom
              /\ r.interv = call[1].interval)
    /\ call[1].err # NoError => ~call[1].res
    /\ security_quotes = call[1].quotesBefore
    /\ securities = call[1].securitiesBefore

\* the query has answered false although the security has a persisted
\* quote of the interval with another begin
C33_Witness ==
  /\ ReturnedOp(1, "SecurityQuotesExist")
  /\ call[1].err = NoError
  /\ ~call[1].res
  /\ \E r \in security_quotes :
       r.security = sec[1].id /\ r.interv = call[1].interval

(***************************************************************************)
(* Properties of collectErrors                                             *)
(***************************************************************************)
\* no task has sent on the closed errChan, a close statement that is about
\* to run finds its channel open, and after the return all three channels
\* are closed
ChannelsUsedProperly ==
  /\ \A i \in Tasks : taskPc[i] # "panic"
  /\ collPc = "close" => closed \cap {"errChan", "quitChan"} = {}
  /\ mainPc \in {"spawn", "wait", "quit", "receive"} => "finErrChan" \notin closed
  /\ mainPc = "returned" => closed = {"errChan", "quitChan", "finErrChan"}

\* C34: for every number of items and every interleaving, no task sends on
\* errChan after it was closed, every channel is closed once, and when every
\* per-item operation returns the send on quitChan and the receive on
\* finErrChan complete and GetSecuritiesData returns.
C34_CollectorProtocol ==
  /\ []ChannelsUsedProperly
  /\ <>(mainPc = "returned" /\ \A i \in 1..Len(items) : taskPc[i] = "done")

\* a fan-out over the longest list has returned after at least two of its
\* tasks have sent an error, and the three channels are closed
C34_Witness ==
  /\ mainPc = "returned"
  /\ Len(items) >= MaxItems
  /\ Cardinality(Failed) >= 2
  /\ Len(result) >= 2
  /\ closed = {"errChan", "quitChan", "finErrChan"}

(***************************************************************************)
(* Properties of concurrent calls of UpdateSecurityQuotes                  *)
(***************************************************************************)
\* both callers have returned from UpdateSecurityQuotes on the same
\* security with the same window and interval, the provider has answered
\* both with the same non-empty series, and no failure of the store or the
\* provider was injected: an error a call returns is one the statements of
\* the two calls have brought about
SameReplaceTwice ==
  /\ \A p \in Procs : Returned(p) /\ ~call[p].fault /\ call[p].fetched # <<>>
  /\ sec[1].id = sec[2].id
  /\ call[1].dateFrom = call[2].dateFrom
  /\ call[1].dateTill = call[2].dateTill
  /\ call[1].interval = call[2].interval
  /\ call[1].fetched = call[2].fetched

\* C35: after two UpdateSecurityQuotes calls on the same security, window
\* and interval with the same upstream data have both returned, in whatever
\* order their delete and insert statements ran, the persisted quotes of the
\* window are fetched quotes and every fetched quote is persisted, also when
\* one of the calls returned an error of the store.
C35_ConcurrentReplaceKeepsFetched ==
  SameReplaceTwice =>
    /\ WindowRows(1, security_quotes) \subseteq FetchedRows(1)
    /\ FetchedRows(1) \subseteq security_quotes

(***************************************************************************)
(* Properties of concurrent calls of UpdateAllSecuritiesLastQuotes         *)
(***************************************************************************)
\* the day quotes the provider has set in the call of p, with the id of
\* their security
FetchedLast(p) ==
  {<<call[p].list[k].id, LastQuotes(call[p].list[k], IntervalDay)>> :
     k \in {j \in 1..Len(call[p].list) : call[p].list[j].id \in call[p].matched}}

\* both callers have returned from UpdateAllSecuritiesLastQuotes, the
\* provider has answered both for the same day, and no failure of the store
\* or the provider was injected
SameDayUpsertTwice ==
  /\ \A p \in Procs : ReturnedLast(p) /\ ~call[p].fault /\ call[p].matched # {}
  /\ \A x, y \in FetchedLast(1) \cup FetchedLast(2) : x[2].Begin = y[2].Begin

\* C36: after two UpdateAllSecuritiesLastQuotes calls for the same day have
\* both returned, in whatever order their existence queries and their
\* inserts ran, every security for which one of the calls fetched a quote
\* has a persisted day quote of that day.
C36_ConcurrentUpsertPersistsEveryFetched ==
  SameDayUpsertTwice =>
    \A x \in FetchedLast(1) \cup FetchedLast(2) :
      \E r \in security_quotes :
        /\ r.security = x[1]
        /\ r.interv = IntervalDay
        /\ r.begin = x[2].Begin

(***************************************************************************)
(* Properties of the tasks of securityListHandler                          *)
(***************************************************************************)
\* C37: the ranking has an entry for a security exactly when the
\* UpdateSecurityQuotes of its own task returned no error, whatever the
\* tasks of the other securities returned.
C37_EntryIffOwnUpdateSucceeded ==
  ReturnedOp(1, "securityListHandler") =>
    /\ call[1].matched = Procs \ call[1].failed
    /\ {call[1].out[k].id : k \in 1..Len(call[1].out)}
         = {sec[p].id : p \in Procs \ call[1].failed}

(***************************************************************************)
(* Properties of the rows UpdateSecurityQuotes inserts                     *)
(***************************************************************************)
\* caller p is in an UpdateSecurityQuotes whose INSERT has run or is about
\* to: call[p].quotes is the list of the quotes it carries
Inserting(p) ==
  /\ call[p].op = "UpdateSecurityQuotes"
  /\ call[p].parsed
  /\ call[p].deleted

\* C38: the INSERT of UpdateSecurityQuotes carries the quotes this call has
\* fetched, each once, and no quote the Security value held before the call.
C38_InsertsFetchedOnly ==
  \A p \in Procs :
    Inserting(p) =>
      /\ Len(call[p].quotes) = Len(call[p].fetched)
      /\ \A q \in Range(call[p].quotes) \cup Range(call[p].fetched) :
           Cardinality({k \in 1..Len(call[p].quotes) : call[p].quotes[k] = q})
             = Cardinality({k \in 1..Len(call[p].fetched) : call[p].fetched[k] = q})

\* C39: every quote UpdateSecurityQuotes has fetched and inserts begins
\* inside the window of its DELETE, dateFrom <= begin <= dateTill as times,
\* when upstream, asked by the dates of dateFrom and dateTill, returns
\* quotes that begin on a day from the one to the other; for every interval
\* and every time of day of dateFrom and dateTill.
C39_InsertedBeginsInDeletedWindow ==
  \A p \in Procs :
    Inserting(p) =>
      \A q \in Range(call[p].fetched) :
        /\ DateOf(call[p].dateFrom) <= DateOf(q.Begin)
        /\ DateOf(q.Begin) <= DateOf(call[p].dateTill)
        /\ call[p].dateFrom <= q.Begin
        /\ q.Begin <= call[p].dateTill

(***************************************************************************)
(* Properties of AddSecurities on lists with invalid keys                  *)
(***************************************************************************)
\* the entries of the list of AddSecurities whose key is invalid
InvalidEntries(p) ==
  {k \in 1..Len(call[p].list) : InvalidKey(call[p].list[k])}

\* C40: when an entry of the list has no id, no type or the unknown type,
\* AddSecurities returns an error, the one SecurityExists gives for the
\* first such entry unless a query failed before, and inserts no row: the
\* table securities is as it was before the call, also when valid entries
\* that are not persisted precede the invalid one.
C40_InvalidKeyInsertsNothing ==
  \A p \in Procs :
    (ReturnedOp(p, "AddSecurities") /\ InvalidEntries(p) # {}) =>
      LET k == CHOOSE i \in InvalidEntries(p) : \A j \in InvalidEntries(p) : i <= j
          s == call[p].list[k]
      IN /\ call[p].err # NoError
         /\ ~call[p].fault =>
              call[p].err = SecurityExists(securities, s.id, s.sType).err
         /\ securities = call[p].securitiesBefore
         /\ security_quotes = call[p].quotesBefore

\* AddSecurities has returned the error of an invalid key at the end of a
\* list whose first entry has a valid key that is not persisted
C40_Witness ==
  \E p \in Procs :
    /\ ReturnedOp(p, "AddSecurities")
    /\ ~call[p].fault
    /\ Len(call[p].list) >= 2
    /\ InvalidEntries(p) = {Len(call[p].list)}
    /\ ~Registered(securities, call[p].list[1].id)
    /\ call[p].err # NoError

====
